---- MODULE Spec2Model ----
(***************************************************************************)
(* Verification model of the retrieval engine of ministry_rag_q-a:         *)
(*   - RateLimiter.wait                (src/src/pipeline/rag_pipeline.py)  *)
(*   - Retriever.retrieve and helpers  (src/src/nodes/retriever.py)        *)
(* Scores are fixed-point numbers in thousandths (1000 stands for 1.0).    *)
(***************************************************************************)
EXTENDS Integers, Sequences, FiniteSets, TLC

VARIABLES
    \* ---- RateLimiter (rag_pipeline.py:25-55) ----
    clock,               \* time.time(), in seconds
    inst_request_times,  \* self._request_times of every RateLimiter instance
    inst_last_request,   \* self._last_request of every instance
    lock,                \* RateLimiter._lock: 0 when free, else the caller holding it
    rlpc,                \* per caller: "idle" or "sleeping" (inside asyncio.sleep)
    rlnow,               \* per caller: the local variable now of its pending wait
    wake,                \* per caller: earliest time its asyncio.sleep may end
    released,            \* log: one record per return of wait
    \* ---- adaptive thresholds of _search_articles_and_appendices (retriever.py:367-390) ----
    spc,                     \* position inside _search_articles_and_appendices
    min_score,               \* self.min_score
    all_subsection_scores,   \* pass-1 cosine similarities, in observation order
    adaptive_threshold,      \* thousandths
    article_threshold,       \* adaptive_threshold * 0.95, in 1/100000
    appendix_threshold,      \* adaptive_threshold * 0.9, in 1/100000
    \* ---- _ensure_complete_articles_and_appendices on one document (retriever.py:979-1151) ----
    epc,                     \* "off", "input", "ensured" (one call), "ensured2" (two calls)
    edoc0,                   \* doc.metadata before the first call
    edoc,                    \* doc.metadata now
    ematched,                \* raw indices the searcher had matched: [a |-> set, p |-> set]
    \* ---- hybrid retrieval: _dense_retrieval twice, _merge_results, _log_retrieval_results ----
    mpc,                     \* "off", "start", "dense", "sparse", "merged", "done"
    filters,                 \* the MetadataFilters fields that are not None
    dense_in,                \* what the searcher and the vector store answer to the dense call
    sparse_in,               \* the same for the sparse call
    dense_docs,              \* result of the dense call: sequence of [doc, score]
    sparse_docs,             \* result of the sparse call
    docs,                    \* result of _merge_results, then of retrieve
    queries,                 \* log: the filtered vector-store queries of _dense_retrieval
    \* ---- retrieve up to the return of _search_articles_and_appendices (retriever.py:167-766) ----
    query_keywords,          \* _extract_query_keywords(query)
    results,                 \* the vector store's answer to the query of line 281
    idx,                     \* loop index of pass 2 (1-based)
    enhanced_results,        \* sequence of [doc, score]
    doc_map,                 \* insertion-ordered dict: sequence of [id, doc, score]
    best_subsection_score,
    best_doc_id,
    found,                   \* the list the searcher returns
    calls,                   \* log: "wait", "llm", "store" and "embed" calls in order
    embedded,                \* log: the articles and appendices embed_query was called for
    \* ---- the workflow graph (rag_graph.py:86-239) ----
    gpc,                     \* the node the graph runs next: a node name, "END" or "off"
    graph_config,            \* what RAGGraph.__init__ and WebSearcher.__init__ configured
    rag_state,               \* the RAGState keys the routing functions read
    executed                 \* log: the nodes executed, in order; poor marks a generation with
                             \* hallucinations or one that does not answer the question

rlvars == <<clock, inst_request_times, inst_last_request, lock, rlpc, rlnow, wake, released>>
thvars == <<spc, min_score, all_subsection_scores, adaptive_threshold, article_threshold,
            appendix_threshold>>

envars == <<epc, edoc0, edoc, ematched>>
mgvars == <<mpc, filters, dense_in, sparse_in, dense_docs, sparse_docs, docs, queries>>

sevars == <<query_keywords, results, idx, enhanced_results, doc_map, best_subsection_score,
            best_doc_id, found, calls, embedded>>

grvars == <<gpc, graph_config, rag_state, executed>>

vars == <<rlvars, thvars, envars, mgvars, sevars, grvars>>

(***************************************************************************)
(* Generic helpers                                                         *)
(***************************************************************************)
Min2(a, b) == IF a <= b THEN a ELSE b
Max2(a, b) == IF a >= b THEN a ELSE b

RECURSIVE SeqSum(_)
SeqSum(s) == IF s = <<>> THEN 0 ELSE Head(s) + SeqSum(Tail(s))

(***************************************************************************)
(* RateLimiter                                                             *)
(***************************************************************************)
Window == 60             \* cutoff = now - 60
RequestsPerMinute == 2   \* requests_per_minute of every instance
NumInstances == 2        \* RateLimiter objects in the process
NumCallers == 3          \* coroutines calling wait
MaxWaits == 5            \* calls of wait in one behaviour
TickStep == 30           \* seconds the clock advances in one step
MaxTime == 150           \* last clock value explored

Instances == 1..NumInstances
Callers == 1..NumCallers

\* the RateLimiter instance a caller holds
CallerInst(c) == ((c - 1) % NumInstances) + 1

\* the class attribute _request_times = [] is never mutated: wait rebinds
\* self._request_times (an instance attribute) before it appends
ClassRequestTimes == <<>>

\* self._request_times as read at line 44: the instance attribute when set,
\* else the class attribute
ReadRequestTimes(i) ==
    IF inst_request_times[i] = "unset" THEN ClassRequestTimes ELSE inst_request_times[i]

\* [t for t in self._request_times if t > cutoff]
Prune(times, cutoff) == SelectSeq(times, LAMBDA t : t > cutoff)

WaitsStarted == Len(released) + Cardinality({c \in Callers : rlpc[c] = "sleeping"})

\* the timestamp wait appends: the value of now read before any sleep
RecordedStamp(nowAtEntry, nowAtExit) == nowAtEntry

RLInit ==
    /\ clock = 0
    /\ inst_request_times = [i \in Instances |-> "unset"]
    /\ inst_last_request = [i \in Instances |-> 0]
    /\ lock = 0
    /\ rlpc = [c \in Callers |-> "idle"]
    /\ rlnow = [c \in Callers |-> 0]
    /\ wake = [c \in Callers |-> 0]
    /\ released = <<>>

\* wait() when the budget is not exhausted: runs to completion without suspending
WaitNoSleep(c) ==
    LET i == CallerInst(c)
        now == clock
        cutoff == now - Window
        pruned == Prune(ReadRequestTimes(i), cutoff)
    IN  /\ rlpc[c] = "idle"
        /\ lock = 0
        /\ WaitsStarted < MaxWaits
        /\ (Len(pruned) >= RequestsPerMinute) => (pruned[1] - cutoff <= 0)
        /\ inst_request_times' =
               [inst_request_times EXCEPT ![i] =
                   IF Len(pruned) >= RequestsPerMinute
                   THEN Append(Tail(pruned), now)
                   ELSE Append(pruned, now)]
        /\ inst_last_request' = [inst_last_request EXCEPT ![i] = now]
        /\ released' = Append(released,
                              [inst |-> i, at |-> clock, stamp |-> now, slept |-> FALSE, woke |-> now])
        /\ UNCHANGED <<clock, lock, rlpc, rlnow, wake>>

\* wait() when the budget is exhausted: holds the lock and suspends in asyncio.sleep
WaitSleep(c) ==
    LET i == CallerInst(c)
        now == clock
        cutoff == now - Window
        pruned == Prune(ReadRequestTimes(i), cutoff)
    IN  /\ rlpc[c] = "idle"
        /\ lock = 0
        /\ WaitsStarted < MaxWaits
        /\ Len(pruned) >= RequestsPerMinute
        /\ pruned[1] - cutoff > 0
        /\ inst_request_times' = [inst_request_times EXCEPT ![i] = pruned]
        /\ lock' = c
        /\ rlpc' = [rlpc EXCEPT ![c] = "sleeping"]
        /\ rlnow' = [rlnow EXCEPT ![c] = now]
        /\ wake' = [wake EXCEPT ![c] = now + (pruned[1] - cutoff)]
        /\ UNCHANGED <<clock, inst_last_request, released>>

\* the sleep ends: drop the oldest entry, append now, release the lock, return
WaitWake(c) ==
    LET i == CallerInst(c)
        stamp == RecordedStamp(rlnow[c], clock)
    IN  /\ rlpc[c] = "sleeping"
        /\ clock >= wake[c]
        /\ inst_request_times' =
               [inst_request_times EXCEPT ![i] = Append(Tail(inst_request_times[i]), stamp)]
        /\ inst_last_request' = [inst_last_request EXCEPT ![i] = stamp]
        /\ lock' = 0
        /\ rlpc' = [rlpc EXCEPT ![c] = "idle"]
        /\ released' = Append(released,
                              [inst |-> i, at |-> clock, stamp |-> stamp, slept |-> TRUE, woke |-> clock])
        /\ UNCHANGED <<clock, rlnow, wake>>

\* real time passes
Tick ==
    /\ clock + TickStep <= MaxTime
    /\ clock' = clock + TickStep
    /\ UNCHANGED <<inst_request_times, inst_last_request, lock, rlpc, rlnow, wake, released>>

(***************************************************************************)
(* Adaptive thresholds (retriever.py:367-390)                              *)
(***************************************************************************)
MaxPop == 3              \* pass-1 scores in a freely chosen population
DefaultMinScore == 500   \* config.get("min_score", 0.5)
ThresholdCap == 750      \* the 0.75 of line 381

PopScores == {280, 300, 320, 600, 900}
MinScores == {300, DefaultMinScore, 800}
ConfiguredMinScores == {200, DefaultMinScore}

\* floor of the square root (score_variance ** 0.5 on thousandths)
ISqrt(v) == CHOOSE r \in 0..1000 : r * r <= v /\ v < (r + 1) * (r + 1)

\* list.sort(reverse=True): insertion sort, descending
RECURSIVE InsertDesc(_, _)
InsertDesc(x, s) ==
    IF s = <<>> THEN <<x>>
    ELSE IF x >= Head(s) THEN <<x>> \o s
    ELSE <<Head(s)>> \o InsertDesc(x, Tail(s))

RECURSIVE SortDesc(_)
SortDesc(s) == IF s = <<>> THEN <<>> ELSE InsertDesc(Head(s), SortDesc(Tail(s)))

\* avg_score = sum(scores) / len(scores)
AvgScore(scores) == SeqSum(scores) \div Len(scores)

\* all_subsection_scores[max(0, min(len // 5, len - 1))] of the descending list
Top20(scores) ==
    LET n == Len(scores)
    IN  SortDesc(scores)[Max2(0, Min2(n \div 5, n - 1)) + 1]

\* score_std = (sum((s - avg) ** 2) / len) ** 0.5
ScoreStd(scores) ==
    LET avg == AvgScore(scores)
        sq == [k \in 1..Len(scores) |-> (scores[k] - avg) * (scores[k] - avg)]
    IN  ISqrt(SeqSum(sq) \div Len(scores))

\* avg_score + 0.5 * score_std
EstimateStd(scores) == AvgScore(scores) + ScoreStd(scores) \div 2

\* (avg_score + top_20_percent_threshold) / 2
EstimateTop(scores) == (AvgScore(scores) + Top20(scores)) \div 2

AdaptiveThresholdNoFloor(scores, ms) ==
    IF scores # <<>>
    THEN Min2(Min2(EstimateStd(scores), EstimateTop(scores)), ThresholdCap)
    ELSE 0

AdaptiveThresholdNoCap(scores, ms) ==
    IF scores # <<>>
    THEN Max2(ms, Min2(EstimateStd(scores), EstimateTop(scores)))
    ELSE ms

\* lines 368-386
AdaptiveThreshold(scores, ms) ==
    IF scores # <<>>
    THEN Max2(ms, Min2(Min2(EstimateStd(scores), EstimateTop(scores)), ThresholdCap))
    ELSE ms

ThOff ==
    /\ spc = "off"
    /\ min_score = DefaultMinScore
    /\ all_subsection_scores = <<>>
    /\ adaptive_threshold = 0
    /\ article_threshold = 0
    /\ appendix_threshold = 0

\* no search in progress, self.min_score as configured (line 48)
ThConfigured ==
    /\ spc = "off"
    /\ min_score \in ConfiguredMinScores
    /\ all_subsection_scores = <<>>
    /\ adaptive_threshold = 0
    /\ article_threshold = 0
    /\ appendix_threshold = 0

\* the searcher at line 367, after a pass 1 that gathered any population
ThInit ==
    /\ spc = "threshold"
    /\ min_score \in MinScores
    /\ \E n \in 0..MaxPop : all_subsection_scores \in [1..n -> PopScores]
    /\ adaptive_threshold = 0
    /\ article_threshold = 0
    /\ appendix_threshold = 0

\* lines 367-390
ComputeThresholds ==
    /\ spc = "threshold"
    /\ adaptive_threshold' = AdaptiveThreshold(all_subsection_scores, min_score)
    /\ article_threshold' = adaptive_threshold' * 95
    /\ appendix_threshold' = adaptive_threshold' * 90
    /\ spc' = "pass2"
    /\ UNCHANGED <<min_score, all_subsection_scores>>

RLOff ==
    /\ clock = 0
    /\ inst_request_times = [i \in Instances |-> "unset"]
    /\ inst_last_request = [i \in Instances |-> 0]
    /\ lock = 0
    /\ rlpc = [c \in Callers |-> "idle"]
    /\ rlnow = [c \in Callers |-> 0]
    /\ wake = [c \in Callers |-> 0]
    /\ released = <<>>

(***************************************************************************)
(* Strings: sequences of one-character strings                             *)
(***************************************************************************)
DigitChars == <<"0", "1", "2", "3", "4", "5", "6", "7", "8", "9">>
IsDigit(c) == \E d \in 1..10 : DigitChars[d] = c
DigitVal(c) == (CHOOSE d \in 1..10 : DigitChars[d] = c) - 1

\* float('inf'), the sort key of an identifier without digits
NoNumber == 1000000

RECURSIVE DropNonDigits(_)
DropNonDigits(s) ==
    IF s = <<>> THEN <<>>
    ELSE IF IsDigit(Head(s)) THEN s
    ELSE DropNonDigits(Tail(s))

RECURSIVE DigitRunValue(_, _)
DigitRunValue(s, acc) ==
    IF s = <<>> \/ ~IsDigit(Head(s)) THEN acc
    ELSE DigitRunValue(Tail(s), acc * 10 + DigitVal(Head(s)))

\* _extract_numeric_part: int(re.findall(r'\d+', text)[0]), else float('inf')
ExtractNumericPart(s) ==
    LET r == DropNonDigits(s)
    IN  IF r = <<>> THEN NoNumber ELSE DigitRunValue(r, 0)

LowerChar(c) == IF c = "A" THEN "a" ELSE IF c = "B" THEN "b" ELSE c
\* str.lower()
Lower(s) == [k \in 1..Len(s) |-> LowerChar(s[k])]

RECURSIVE LStrip(_)
LStrip(s) == IF s # <<>> /\ Head(s) = " " THEN LStrip(Tail(s)) ELSE s
RECURSIVE RStrip(_)
RStrip(s) ==
    IF s # <<>> /\ s[Len(s)] = " " THEN RStrip(SubSeq(s, 1, Len(s) - 1)) ELSE s
\* str.strip()
Strip(s) == RStrip(LStrip(s))

(***************************************************************************)
(* Documents, articles and appendices                                      *)
(***************************************************************************)
NoScore == -1            \* the key similarity_score is absent

\* an article or an appendix: number is article_number / appendix_number,
\* text is 0 for a missing or empty text, else the identity of text[:50];
\* kws, cos, key describe the text to the searcher (keywords it contains,
\* cosine similarity of its embedding to the query's, is_key_* flag)
SubStructure(number, title, text, kws, cos, key) ==
    [number |-> number, title |-> title, text |-> text, kws |-> kws, cos |-> cos,
     key |-> key, importance |-> 0, has_table |-> FALSE,
     similarity_score |-> NoScore, is_high_match |-> FALSE, boost_factor |-> 0]

\* a metadata value holding a list: absent, a list, a JSON string of a list,
\* a string that is no JSON ("badjson"), or a list whose entries items are
\* followed by an entry that is no mapping ("illtyped")
NoField == [present |-> FALSE, form |-> "list", items |-> <<>>]
ListField(form, items) == [present |-> TRUE, form |-> form, items |-> items]

\* json.loads for a str, the list itself for a list, [] for any other type;
\* ok is FALSE when json.loads raises
ParseField(f) ==
    IF f.form = "badjson" THEN [ok |-> FALSE, items |-> <<>>]
    ELSE IF f.form \in {"list", "json", "illtyped"} THEN [ok |-> TRUE, items |-> f.items]
    ELSE [ok |-> TRUE, items |-> <<>>]

\* the raw list the completeness step reads; of an ill-typed list, the
\* entries a loop visits before the entry that is no mapping
RawOf(f) == ParseField(f).items

RaisesNever(f) == FALSE

\* a loop over the entries raises at the entry that is no mapping:
\* {**entry} raises TypeError, entry.get raises AttributeError
Raises(f) == f.present /\ f.form = "illtyped"

\* Python truthiness of the value: an empty list is falsy, a non-empty string truthy
Truthy(f) == f.present /\ (f.form = "list" => f.items # <<>>)

\* {**article, 'similarity_score': 0.0, 'is_high_match': False}
ZeroMatch(a) == [a EXCEPT !.similarity_score = 0, !.is_high_match = FALSE]

\* sorted(..., key=...): stable insertion sort, ascending by the numeric part
RECURSIVE InsertByNumber(_, _)
InsertByNumber(x, s) ==
    IF s = <<>> THEN <<x>>
    ELSE IF ExtractNumericPart(x.number) < ExtractNumericPart(Head(s).number) THEN <<x>> \o s
    ELSE <<Head(s)>> \o InsertByNumber(x, Tail(s))

RECURSIVE SortedByNumberFrom(_, _)
SortedByNumberFrom(s, k) ==
    IF k = 0 THEN <<>> ELSE InsertByNumber(s[k], SortedByNumberFrom(s, k - 1))

UnsortedByNumber(s) == s
SortByNumber(s) == SortedByNumberFrom(s, Len(s))

\* _extract_subsections_from_structured_data (lines 1153-1183); subsections is
\* [present, form ("dict", "json" or "badjson"), articles, appendices]
NoSubsections == [present |-> FALSE, form |-> "dict", articles |-> <<>>, appendices |-> <<>>]

ExtractSubsections(md) ==
    IF md.subsections.present /\ md.subsections.form \in {"dict", "json"}
       /\ (md.subsections.articles # <<>> \/ md.subsections.appendices # <<>>)
    THEN LET a == IF md.subsections.articles # <<>> /\ ~Truthy(md.articles)
                  THEN ListField("list", md.subsections.articles) ELSE md.articles
             p == IF md.subsections.appendices # <<>> /\ ~Truthy(md.appendices)
                  THEN ListField("list", md.subsections.appendices) ELSE md.appendices
         IN  [md EXCEPT !.articles = a, !.appendices = p]
    ELSE md

\* lines 994-1013 and 1016-1035: no match yet, so every raw entry becomes a zero match
AllAsZero(raw, matched) ==
    IF raw.present /\ (~matched.present \/ matched.items = <<>>)
    THEN LET p == ParseField(raw)
         IN  IF p.ok /\ p.items # <<>> /\ ~Raises(raw)
             THEN [present |-> TRUE, items |-> [k \in 1..Len(p.items) |-> ZeroMatch(p.items[k])]]
             ELSE matched
    ELSE matched

\* lookup keys; the code's article keys are the stripped lower-case number itself
\* and "text_<hash>", its appendix keys "title_...", "num_..." and "text_<hash>"
LookupKey(kind, s, t) == [kind |-> kind, s |-> s, t |-> t]

\* str(article.get('article_number', '')).strip().lower()
IdentOf(s) == Lower(Strip(s))

\* lines 1049-1054
MatchedArticleLookup(matched) ==
    {LookupKey("num", IdentOf(matched[k].number), 0) : k \in {j \in 1..Len(matched) : IdentOf(matched[j].number) # <<>>}}

\* lines 1057-1071
RECURSIVE AddMissingArticles(_, _, _)
AddMissingArticles(data, matched, lookup) ==
    IF data = <<>> THEN matched
    ELSE LET a == Head(data)
             n == IdentOf(a.number)
         IN  IF n = <<>> /\ a.text = 0
             THEN AddMissingArticles(Tail(data), matched, lookup)
             ELSE LET key == IF n # <<>> THEN LookupKey("num", n, 0) ELSE LookupKey("text", <<>>, a.text)
                  IN  IF key \in lookup
                      THEN AddMissingArticles(Tail(data), matched, lookup)
                      ELSE AddMissingArticles(Tail(data), Append(matched, ZeroMatch(a)),
                                              lookup \cup {key})

\* lines 1038-1081
CompleteArticles(raw, matched) ==
    IF matched.present /\ raw.present
    THEN LET p == ParseField(raw)
             added == AddMissingArticles(p.items, matched.items,
                                         MatchedArticleLookup(matched.items))
         IN  IF Raises(raw) THEN [present |-> TRUE, items |-> added]
             ELSE IF p.ok /\ p.items # <<>>
             THEN [present |-> TRUE, items |-> SortByNumber(added)]
             ELSE matched
    ELSE matched

\* lines 1095-1108
AppendixKeys(x) ==
    LET title == IdentOf(x.title)
        num == IdentOf(x.number)
    IN  (IF title # <<>> THEN {LookupKey("title", title, 0)} ELSE {})
        \cup (IF num # <<>> THEN {LookupKey("num", num, 0)} ELSE {})
        \cup (IF title = <<>> /\ num = <<>> /\ x.text # 0 THEN {LookupKey("text", <<>>, x.text)} ELSE {})

MatchedAppendixLookup(matched) == UNION {AppendixKeys(matched[k]) : k \in 1..Len(matched)}

\* lines 1116-1126
AppendixIsMatched(x, lookup) ==
    LET title == IdentOf(x.title)
        num == IdentOf(x.number)
    IN  IF title # <<>> /\ LookupKey("title", title, 0) \in lookup THEN TRUE
        ELSE IF num # <<>> /\ LookupKey("num", num, 0) \in lookup THEN TRUE
        ELSE IF x.text # 0 THEN LookupKey("text", <<>>, x.text) \in lookup
        ELSE FALSE

\* lines 1111-1138
RECURSIVE AddMissingAppendices(_, _, _)
AddMissingAppendices(data, matched, lookup) ==
    IF data = <<>> THEN matched
    ELSE LET x == Head(data)
             title == IdentOf(x.title)
             num == IdentOf(x.number)
         IN  IF AppendixIsMatched(x, lookup)
             THEN AddMissingAppendices(Tail(data), matched, lookup)
             ELSE AddMissingAppendices(
                      Tail(data), Append(matched, ZeroMatch(x)),
                      lookup \cup (IF title # <<>> THEN {LookupKey("title", title, 0)} ELSE {})
                             \cup (IF num # <<>> THEN {LookupKey("num", num, 0)} ELSE {}))

\* lines 1084-1148
CompleteAppendices(raw, matched) ==
    IF matched.present /\ raw.present
    THEN LET p == ParseField(raw)
             added == AddMissingAppendices(p.items, matched.items,
                                           MatchedAppendixLookup(matched.items))
         IN  IF Raises(raw) THEN [present |-> TRUE, items |-> added]
             ELSE IF p.ok /\ p.items # <<>>
             THEN [present |-> TRUE, items |-> SortByNumber(added)]
             ELSE matched
    ELSE matched

\* _ensure_complete_articles_and_appendices (lines 979-1151) on doc.metadata;
\* an AttributeError of the article loop ends the call (lines 1149-1151)
EnsureComplete(md) ==
    LET m1 == ExtractSubsections(md)
        m2 == [m1 EXCEPT !.matched_articles = AllAsZero(m1.articles, m1.matched_articles)]
        m3 == [m2 EXCEPT !.matched_appendices = AllAsZero(m2.appendices, m2.matched_appendices)]
        m4 == [m3 EXCEPT !.matched_articles = CompleteArticles(m3.articles, m3.matched_articles)]
    IN  IF m3.matched_articles.present /\ Raises(m3.articles) THEN m4
        ELSE [m4 EXCEPT !.matched_appendices = CompleteAppendices(m4.appendices, m4.matched_appendices)]

(***************************************************************************)
(* One document through _ensure_complete_articles_and_appendices           *)
(***************************************************************************)
MaxArticles == 3         \* raw articles of the document
MaxAppendices == 2       \* raw appendices of the document

ArticleNumbers == {<<"2">>, <<"1", "0">>, <<"a", "1">>, <<"A", "1">>, <<"b">>}
RawArticle(number, text) == SubStructure(number, <<>>, text, {}, 0, FALSE)
ArticlePool ==
    {RawArticle(n, 1) : n \in ArticleNumbers} \cup {RawArticle(<<>>, 1), RawArticle(<<>>, 0)}

RawAppendix(title, number, text) == SubStructure(number, title, text, {}, 0, FALSE)
AppendixPool ==
    {RawAppendix(t, n, x) : t \in {<<>>, <<"t">>}, n \in {<<>>, <<"2">>, <<"1">>}, x \in {0, 1}}

\* what pass 2 stores in an accepted copy (lines 479-482): a positive score
AcceptedCopy(a, k) ==
    [a EXCEPT !.similarity_score = 600 + 50 * k, !.is_high_match = (k % 2 = 1),
              !.boost_factor = 1000]

\* the accepted copies of the raw entries with index in mask, in raw order
RECURSIVE MatchedFrom(_, _, _)
MatchedFrom(raw, mask, k) ==
    IF k > Len(raw) THEN <<>>
    ELSE (IF k \in mask THEN <<AcceptedCopy(raw[k], k)>> ELSE <<>>) \o MatchedFrom(raw, mask, k + 1)

\* an entry without number, title and text cannot contain a keyword
Matchable(raw) ==
    {k \in 1..Len(raw) : raw[k].number # <<>> \/ raw[k].title # <<>> \/ raw[k].text # 0}

\* doc.metadata as the searcher (enhanced) or the vector store (not enhanced)
\* hands it to the completeness step
EnsureInput(rawA, maskA, rawP, maskP, via, enhanced) ==
    [articles |-> IF via = "subsections" THEN NoField ELSE ListField(via, rawA),
     appendices |-> IF via = "subsections" THEN NoField ELSE ListField(via, rawP),
     subsections |-> IF via = "subsections"
                     THEN [present |-> TRUE, form |-> "dict", articles |-> rawA, appendices |-> rawP]
                     ELSE NoSubsections,
     matched_articles |-> IF enhanced
                          THEN [present |-> TRUE, items |-> MatchedFrom(rawA, maskA, 1)]
                          ELSE [present |-> FALSE, items |-> <<>>],
     matched_appendices |-> IF enhanced
                            THEN [present |-> TRUE, items |-> MatchedFrom(rawP, maskP, 1)]
                            ELSE [present |-> FALSE, items |-> <<>>]]

EnOff ==
    /\ epc = "off"
    /\ edoc0 = EnsureInput(<<>>, {}, <<>>, {}, "list", FALSE)
    /\ edoc = edoc0
    /\ ematched = [a |-> {}, p |-> {}]

EnInit ==
    /\ epc = "input"
    /\ \E via \in {"list", "json", "subsections"}, enhanced \in BOOLEAN :
          \/ \E n \in 0..MaxArticles : \E rawA \in [1..n -> ArticlePool] :
                \E maskA \in SUBSET Matchable(rawA) :
                   /\ (via = "subsections" \/ ~enhanced) => maskA = {}
                   /\ ematched = [a |-> maskA,
                                  p |-> IF enhanced /\ maskA = {} /\ via # "subsections"
                                        THEN {1} ELSE {}]
                   /\ edoc0 = EnsureInput(rawA, maskA, <<RawAppendix(<<"t">>, <<"1">>, 1)>>, ematched.p,
                                           via, enhanced)
          \/ \E n \in 0..MaxAppendices : \E rawP \in [1..n -> AppendixPool] :
                \E maskP \in SUBSET Matchable(rawP) :
                   /\ (via = "subsections" \/ ~enhanced) => maskP = {}
                   /\ ematched = [a |-> IF enhanced /\ maskP = {} /\ via # "subsections"
                                        THEN {1} ELSE {},
                                  p |-> maskP]
                   /\ edoc0 = EnsureInput(<<RawArticle(<<"1">>, 1)>>, ematched.a, rawP, maskP,
                                           via, enhanced)
    /\ edoc = edoc0

\* the first call (from _dense_retrieval, line 817, or from _merge_results, line 960)
Ensure ==
    /\ epc = "input"
    /\ edoc' = EnsureComplete(edoc)
    /\ epc' = "ensured"
    /\ UNCHANGED <<edoc0, ematched>>

\* the call of _merge_results (line 960) on a document _dense_retrieval completed
EnsureAgain ==
    /\ epc = "ensured"
    /\ edoc' = EnsureComplete(edoc)
    /\ epc' = "ensured2"
    /\ UNCHANGED <<edoc0, ematched>>

(***************************************************************************)
(* Documents and result lists                                              *)
(***************************************************************************)
Absent == [present |-> FALSE, items |-> <<>>]

\* page_content: sig is page_content[:200].strip(), rest what follows it,
\* kws the query keywords that occur in it
PageContent(sig, rest, kws) == [sig |-> sig, rest |-> rest, kws |-> kws]

\* doc.metadata as the vector store returns it; id "" stands for no 'id' key,
\* bonus for the metadata fields that earn an exact-match bonus for the query
StoreMetadata(id, articles, appendices, bonus) ==
    [id |-> id, articles |-> articles, appendices |-> appendices,
     subsections |-> NoSubsections, bonus |-> bonus,
     matched_articles |-> Absent, matched_appendices |-> Absent,
     original_score |-> NoScore, subsection_score |-> NoScore,
     precision_score |-> NoScore, diversity_score |-> NoScore,
     metadata_bonus |-> NoScore, has_best_match |-> FALSE,
     total_matches |-> NoScore, match_coverage |-> NoScore]

\* a Document object: ref is its identity
Document(ref, page_content, metadata) ==
    [ref |-> ref, page_content |-> page_content, metadata |-> metadata]

Result(doc, score) == [doc |-> doc, score |-> score]

\* doc.metadata.get('subsection_score', 0)
SubsectionScoreOf(md) == IF md.subsection_score = NoScore THEN 0 ELSE md.subsection_score

\* max_article_score, max_appendix_score -> subsection_score (lines 563-578)
SubsectionScore(maxA, maxP) ==
    LET aw == IF 2 * maxA > 3 * maxP THEN 8 ELSE IF 2 * maxP > 3 * maxA THEN 2 ELSE 6
    IN  IF maxA > 0 /\ maxP > 0 THEN (aw * maxA + (10 - aw) * maxP) \div 10
        ELSE Max2(maxA, maxP)

\* the loop "if subsection_score > highest_subsection_score" from index start
\* (1 where the code starts at index 0, 0 where it starts at -1)
RECURSIVE HighestFrom(_, _, _, _)
HighestFrom(res, k, best, index) ==
    IF k > Len(res) THEN index
    ELSE IF SubsectionScoreOf(res[k].doc.metadata) > best
         THEN HighestFrom(res, k + 1, SubsectionScoreOf(res[k].doc.metadata), k)
         ELSE HighestFrom(res, k + 1, best, index)

HighestDocIndex(res, start) == HighestFrom(res, 1, 0, start)

KeepMatched(md) == md

\* del doc.metadata['matched_articles'], del doc.metadata['matched_appendices']
StripMatched(md) == [md EXCEPT !.matched_articles = Absent, !.matched_appendices = Absent]

\* the completeness step on the document at the highest index and the removal
\* of the matched lists from the documents at every other index (lines 805-830
\* and 949-972); list entries holding the same object change together
KeepBestOnly(res) ==
    LET h == HighestDocIndex(res, 1)
        shared == \E i \in 1..Len(res) : i # h /\ res[i].doc.ref = res[h].doc.ref
    IN  [k \in 1..Len(res) |->
            LET md == res[k].doc.metadata
                new == IF res[k].doc.ref = res[h].doc.ref
                       THEN (IF shared THEN StripMatched(EnsureComplete(md)) ELSE EnsureComplete(md))
                       ELSE StripMatched(md)
            IN  [res[k] EXCEPT !.doc.metadata = new]]

\* [x for x in res if x.score >= ms]
RECURSIVE AtLeast(_, _)
AtLeast(res, ms) ==
    IF res = <<>> THEN <<>>
    ELSE (IF Head(res).score >= ms THEN <<Head(res)>> ELSE <<>>) \o AtLeast(Tail(res), ms)

\* sort(key=score, reverse=True): stable
RECURSIVE InsertByScore(_, _)
InsertByScore(x, s) ==
    IF s = <<>> THEN <<x>>
    ELSE IF x.score > Head(s).score THEN <<x>> \o s
    ELSE <<Head(s)>> \o InsertByScore(x, Tail(s))

RECURSIVE SortedByScoreFrom(_, _)
SortedByScoreFrom(s, k) ==
    IF k = 0 THEN <<>> ELSE InsertByScore(s[k], SortedByScoreFrom(s, k - 1))

SortByScore(s) == SortedByScoreFrom(s, Len(s))

\* s[:n]
Take(s, n) == SubSeq(s, 1, Min2(n, Len(s)))

(***************************************************************************)
(* _dense_retrieval (lines 775-883) as a function of what its callees      *)
(* return, _merge_results (900-977), _log_retrieval_results (1197-1301)    *)
(***************************************************************************)
default_k == 2       \* self.default_k
max_k == 2           \* self.max_k
MaxStore == 3        \* results of one filtered vector-store query
MaxSparse == 1       \* results the callees return to the sparse call

\* non_none_filters_count < 2 (line 800)
Delegates(fs) == Cardinality(fs) < 2

\* the call returns the searcher's documents (line 803: if docs)
ReturnsSearch(fs, in) == Delegates(fs) /\ in.found # <<>>

FilterPathNoCut(res, ms) == Take(SortByScore(res), default_k)

\* lines 865-883
FilterPath(res, ms) == Take(SortByScore(AtLeast(res, ms)), default_k)

DenseRetrieval(fs, in, ms) ==
    IF ReturnsSearch(fs, in) THEN KeepBestOnly(in.found) ELSE FilterPath(in.stored, ms)

\* the vector-store query of lines 857-861, logged with its filter conditions
DenseQueries(fs, in, by) ==
    IF ReturnsSearch(fs, in) THEN <<>> ELSE <<[by |-> by, conditions |-> Cardinality(fs)]>>

\* doc_scores: an insertion-ordered dict keyed by page_content
KeyIndex(d, key) ==
    IF \E k \in 1..Len(d) : d[k].doc.page_content = key
    THEN CHOOSE k \in 1..Len(d) : d[k].doc.page_content = key
    ELSE 0

\* lines 912-917
RECURSIVE PutDense(_, _)
PutDense(d, res) ==
    IF res = <<>> THEN d
    ELSE LET x == Result(Head(res).doc, (7 * Head(res).score) \div 10)
             k == KeyIndex(d, x.doc.page_content)
         IN  PutDense(IF k = 0 THEN Append(d, x) ELSE [d EXCEPT ![k] = x], Tail(res))

\* lines 920-928
RECURSIVE AddSparse(_, _)
AddSparse(d, res) ==
    IF res = <<>> THEN d
    ELSE LET w == (3 * Head(res).score) \div 10
             k == KeyIndex(d, Head(res).doc.page_content)
         IN  AddSparse(IF k = 0 THEN Append(d, Result(Head(res).doc, w))
                       ELSE [d EXCEPT ![k].score = @ + w], Tail(res))

FusedScores(dense, sparse) == AddSparse(PutDense(<<>>, dense), sparse)

MergedListUnsorted(dense, sparse, ms) ==
    Take(AtLeast(FusedScores(dense, sparse), ms), max_k)

\* lines 930-947
MergedList(dense, sparse, ms) ==
    Take(AtLeast(SortByScore(FusedScores(dense, sparse)), ms), max_k)

MergeResults(dense, sparse, ms) ==
    LET m == MergedList(dense, sparse, ms)
    IN  IF m = <<>> THEN <<>> ELSE KeepBestOnly(m)

\* lines 1273-1297: {**article, 'similarity_score': 0.0} for every raw entry
LogZeroMatches(raw, matched) ==
    IF Truthy(raw) /\ raw.form # "badjson" /\ ~Raises(raw) /\ raw.items # <<>>
    THEN [present |-> TRUE,
          items |-> [k \in 1..Len(raw.items) |-> [raw.items[k] EXCEPT !.similarity_score = 0]]]
    ELSE matched

LogRetrievalResults(res) ==
    LET h == HighestDocIndex(res, 0)
    IN  [k \in 1..Len(res) |->
            LET md == res[k].doc.metadata
            IN  IF k = h /\ md.matched_articles.items = <<>> /\ md.matched_appendices.items = <<>>
                THEN [res[k] EXCEPT !.doc.metadata =
                         [md EXCEPT !.matched_articles = LogZeroMatches(md.articles, md.matched_articles),
                                    !.matched_appendices = LogZeroMatches(md.appendices, md.matched_appendices)]]
                ELSE res[k]]

\* ---- the documents of the vector store ----
\* d1 and d2 share their first 200 characters; d1 lists article 10 before
\* article 2, d2 an article without a number first
StoreDocs ==
    [d1 |-> Document(0, PageContent(1, 1, {}),
                StoreMetadata("a",
                    ListField("list", <<RawArticle(<<"1", "0">>, 1), RawArticle(<<"2">>, 1)>>),
                    ListField("list", <<RawAppendix(<<"t">>, <<"1">>, 1)>>), {})),
     d2 |-> Document(0, PageContent(1, 2, {}),
                StoreMetadata("b",
                    ListField("json", <<RawArticle(<<"b">>, 1), RawArticle(<<"2">>, 1)>>),
                    NoField, {})),
     d3 |-> Document(0, PageContent(2, 1, {}),
                StoreMetadata("", NoField,
                    ListField("list", <<RawAppendix(<<>>, <<"2">>, 1),
                                        RawAppendix(<<"t">>, <<"1">>, 1)>>), {}))]

MaxScoreOf(items) ==
    IF items = <<>> THEN 0
    ELSE CHOOSE m \in {items[k].similarity_score : k \in 1..Len(items)} :
             \A k \in 1..Len(items) : items[k].similarity_score <= m

\* the enhanced copy the searcher makes of a store document whose raw entries
\* with index in maskA / maskP were accepted (lines 601-616)
EnhancedDoc(d, maskA, maskP, hasBest) ==
    LET ma == MatchedFrom(RawOf(d.metadata.articles), maskA, 1)
        mp == MatchedFrom(RawOf(d.metadata.appendices), maskP, 1)
    IN  [d EXCEPT !.metadata.matched_articles = [present |-> TRUE, items |-> ma],
                  !.metadata.matched_appendices = [present |-> TRUE, items |-> mp],
                  !.metadata.subsection_score = SubsectionScore(MaxScoreOf(ma), MaxScoreOf(mp)),
                  !.metadata.has_best_match = hasBest]

\* results the searcher can return, and results the vector store can return
FoundPool ==
    {Result(EnhancedDoc(StoreDocs.d1, {1}, {}, FALSE), 900),
     Result(EnhancedDoc(StoreDocs.d1, {}, {1}, FALSE), 600),
     Result(EnhancedDoc(StoreDocs.d2, {1, 2}, {}, TRUE), 600),
     Result(EnhancedDoc(StoreDocs.d2, {2}, {}, FALSE), 900),
     Result(EnhancedDoc(StoreDocs.d3, {}, {1}, FALSE), 900)}

StorePool ==
    {Result(StoreDocs.d1, 900), Result(StoreDocs.d2, 600), Result(StoreDocs.d3, 400), Result(StoreDocs.d3, 700)}

IsSortedByScore(res) == \A k \in 1..(Len(res) - 1) : res[k].score >= res[k + 1].score

\* every list entry is an object of its own
WithRefs(res, base) == [k \in 1..Len(res) |-> [res[k] EXCEPT !.doc.ref = base + k]]

\* what the callees answer to one call of _dense_retrieval with filters fs
CalleeAnswers(fs, maxFound, maxStored, base) ==
    {[found |-> WithRefs(f, base), stored |-> WithRefs(s, base)] :
        f \in {x \in UNION {[1..n -> FoundPool] : n \in 0..maxFound} :
                  IsSortedByScore(x) /\ (~Delegates(fs) => x = <<>>)},
        s \in UNION {[1..n -> StorePool] : n \in 0..maxStored}}

MgOff ==
    /\ mpc = "off"
    /\ filters = {}
    /\ dense_in = [found |-> <<>>, stored |-> <<>>]
    /\ sparse_in = [found |-> <<>>, stored |-> <<>>]
    /\ dense_docs = <<>>
    /\ sparse_docs = <<>>
    /\ docs = <<>>
    /\ queries = <<>>

\* retrieve at line 215, filters extracted, query rewritten
MgInit ==
    /\ mpc = "start"
    /\ filters \in {{}, {"year"}, {"year", "chunk_type"}}
    /\ dense_in \in {a \in CalleeAnswers(filters, default_k, MaxStore, 0) :
                        a.found # <<>> => a.stored = <<>>}
    /\ sparse_in \in {a \in CalleeAnswers(filters, MaxSparse, MaxSparse, 10) :
                        a.found # <<>> => a.stored = <<>>}
    /\ dense_docs = <<>>
    /\ sparse_docs = <<>>
    /\ docs = <<>>
    /\ queries = <<>>

\* line 215
Dense ==
    /\ mpc = "start"
    /\ dense_docs' = DenseRetrieval(filters, dense_in, min_score)
    /\ queries' = queries \o DenseQueries(filters, dense_in, "dense")
    /\ mpc' = "dense"
    /\ UNCHANGED <<filters, dense_in, sparse_in, sparse_docs, docs>>

\* line 219: _sparse_retrieval is _dense_retrieval (lines 885-898)
Sparse ==
    /\ mpc = "dense"
    /\ sparse_docs' = DenseRetrieval(filters, sparse_in, min_score)
    /\ queries' = queries \o DenseQueries(filters, sparse_in, "sparse")
    /\ mpc' = "sparse"
    /\ UNCHANGED <<filters, dense_in, sparse_in, dense_docs, docs>>

\* line 223
Merge ==
    /\ mpc = "sparse"
    /\ docs' = MergeResults(dense_docs, sparse_docs, min_score)
    /\ mpc' = "merged"
    /\ UNCHANGED <<filters, dense_in, sparse_in, dense_docs, sparse_docs, queries>>

\* lines 227-234
LogAndReturn ==
    /\ mpc = "merged"
    /\ docs' = LogRetrievalResults(docs)
    /\ mpc' = "done"
    /\ UNCHANGED <<filters, dense_in, sparse_in, dense_docs, sparse_docs, queries>>

(***************************************************************************)
(* _search_articles_and_appendices (lines 268-766), entered from retrieve  *)
(***************************************************************************)
MaxResults == 2      \* documents the vector store returns for the query of line 281

\* p in s
IsSubstring(p, s) == \E i \in 0..(Len(s) - Len(p)) : SubSeq(s, i + 1, i + Len(p)) = p

\* str.isdigit
IsDigitString(s) == s # <<>> /\ \A i \in 1..Len(s) : IsDigit(s[i])

\* kw.lower() in text_lower, the text being "number title text" (lines 342, 354)
KeywordIn(kw, x) ==
    \/ Lower(kw) \in x.kws
    \/ IsSubstring(Lower(kw), Lower(x.number))
    \/ IsSubstring(Lower(kw), Lower(x.title))

\* _contains_keywords (lines 1341-1348)
ContainsKeywords(x, kws) == \E k \in 1..Len(kws) : KeywordIn(kws[k], x)

\* 1000 * math.log(n)
Ln(n) == CASE n = 1 -> 0 [] n = 2 -> 693 [] n = 3 -> 1099 [] n = 4 -> 1386
           [] n = 5 -> 1609 [] n = 6 -> 1792 [] OTHER -> 1946

\* _calculate_term_frequency (lines 1350-1380): per keyword index, thousandths
MaxOf(S) == CHOOSE m \in S : \A x \in S : x <= m

TermFrequency(kws, res) ==
    IF res = <<>> THEN [k \in 1..Len(kws) |-> 0]
    ELSE LET count == [k \in 1..Len(kws) |->
                          Cardinality({i \in 1..Len(res) :
                                          Lower(kws[k]) \in res[i].doc.page_content.kws})]
             idf == [k \in 1..Len(kws) |->
                        IF count[k] > 0 THEN Ln(Len(res)) - Ln(count[k]) ELSE 0]
             maxFreq == IF kws = <<>> THEN 1000 ELSE MaxOf({idf[k] : k \in 1..Len(kws)})
         IN  [k \in 1..Len(kws) |-> IF maxFreq > 0 THEN (1000 * idf[k]) \div maxFreq ELSE 0]

\* _calculate_term_match_boost (lines 1382-1396), thousandths
TermMatchBoost(x, kws, tf) == Min2(500, SeqSum([k \in 1..Len(kws) |-> IF KeywordIn(kws[k], x) THEN tf[k] ELSE 0]) \div 3)

\* boost_factor of an article (lines 452-469), thousandths
ArticleBoost(a, kws, tf) ==
    LET b1 == IF a.key THEN 1250 ELSE 1000
        b2 == IF a.importance # 0 THEN (b1 * (8 + a.importance)) \div 8 ELSE b1
        b3 == IF a.number # <<>>
                 /\ \E k \in 1..Len(kws) : IsDigitString(kws[k]) /\ IsSubstring(kws[k], a.number)
              THEN (b2 * 3) \div 2 ELSE b2
    IN  (b3 * (1000 + TermMatchBoost(a, kws, tf))) \div 1000

\* boost_factor of an appendix (lines 502-518)
AppendixBoost(x, kws, tf) ==
    LET b1 == IF x.has_table THEN 1250 ELSE 1000
        b2 == IF x.key THEN (b1 * 14) \div 10 ELSE b1
        title_match_count ==
            Cardinality({k \in 1..Len(kws) : IsSubstring(Lower(kws[k]), Lower(x.title))})
        b3 == IF x.title # <<>> /\ title_match_count > 0
              THEN (b2 * (10 + 2 * title_match_count)) \div 10 ELSE b2
    IN  (b3 * (1000 + TermMatchBoost(x, kws, tf))) \div 1000

\* similarity >= threshold (lines 474, 523); thr is in 1/100000
Accepts(similarity, thr) == similarity * 100 >= thr

\* the accepted copies of one list (lines 443-490, 493-539)
RECURSIVE MatchSubs(_, _, _, _, _, _)
MatchSubs(items, kind, kws, tf, thr, adaptive) ==
    IF items = <<>> THEN <<>>
    ELSE LET x == Head(items)
             b == IF kind = "article" THEN ArticleBoost(x, kws, tf) ELSE AppendixBoost(x, kws, tf)
             sim == (x.cos * b) \div 1000
             copy == [x EXCEPT !.similarity_score = sim, !.is_high_match = (sim >= adaptive + 100),
                               !.boost_factor = b]
         IN  (IF ContainsKeywords(x, kws) /\ Accepts(sim, thr) THEN <<copy>> ELSE <<>>)
             \o MatchSubs(Tail(items), kind, kws, tf, thr, adaptive)

EmbeddedOfAll(md, kws) ==
    RawOf(md.articles) \o (IF Raises(md.articles) THEN <<>> ELSE RawOf(md.appendices))

\* the sub-structures embed_query is called for in one pass over a document
\* (lines 340-362, 443-471 and 493-520): those that pass _contains_keywords,
\* up to the entry at which the loop raises
EmbeddedOf(md, kws) ==
    SelectSeq(RawOf(md.articles), LAMBDA x : ContainsKeywords(x, kws))
    \o (IF Raises(md.articles) THEN <<>>
        ELSE SelectSeq(RawOf(md.appendices), LAMBDA x : ContainsKeywords(x, kws)))

EmbedCalls(n) == [k \in 1..n |-> "embed"]

\* score < self.min_score * 0.8 (lines 315, 407)
Skipped(score, ms) == 10 * score < 8 * ms

\* pass 1 (lines 311-365): the sub-structures embedded, document by document
RECURSIVE Pass1Embedded(_, _, _)
Pass1Embedded(res, kws, ms) ==
    IF res = <<>> THEN <<>>
    ELSE (IF Skipped(Head(res).score, ms) THEN <<>>
          ELSE EmbeddedOf(Head(res).doc.metadata, kws))
         \o Pass1Embedded(Tail(res), kws, ms)

\* all_subsection_scores after pass 1: their cosine similarities
Pass1Scores(res, kws, ms) ==
    [k \in 1..Len(Pass1Embedded(res, kws, ms)) |-> Pass1Embedded(res, kws, ms)[k].cos]

MetadataMatchBonusNoCap(md) ==
    (IF "decision_number" \in md.bonus THEN 200 ELSE 0)
    + (IF "year" \in md.bonus THEN 150 ELSE 0)
    + (IF "chunk_type" \in md.bonus THEN 100 ELSE 0)
    + (IF "official_bulletin" \in md.bonus THEN 100 ELSE 0)

\* _calculate_metadata_match_bonus (lines 1473-1503), thousandths
MetadataMatchBonus(md) ==
    Min2(400, (IF "decision_number" \in md.bonus THEN 200 ELSE 0)
              + (IF "year" \in md.bonus THEN 150 ELSE 0)
              + (IF "chunk_type" \in md.bonus THEN 100 ELSE 0)
              + (IF "official_bulletin" \in md.bonus THEN 100 ELSE 0))

\* doc.metadata.get('id', f"doc_{idx}") with the 0-based idx of the loop
NoId == [name |-> "", n |-> 0]
DocId(md, i) == IF md.id # "" THEN [name |-> md.id, n |-> 0] ELSE [name |-> "doc_", n |-> i - 1]

\* (article_coverage + appendix_coverage) / 2, thousandths
Coverage(matched, total) == IF total > 0 THEN (1000 * matched) \div total ELSE 0

\* lines 558-559
DiversityScore(nA, tA, nP, tP) ==
    Min2(1000, (Coverage(nA, tA) + Coverage(nP, tP)) \div 2 + 50 * (nA + nP))

\* line 584 and 589
EnhancedScore(score, subsection, diversity, precision, bonus) ==
    (2 * score + 6 * subsection + diversity + precision) \div 10 + bonus

\* what pass 2 computes for results[i] (lines 403-616)
Pass2Of(r, i, kws, tf, thrA, thrP, adaptive, best) ==
    LET md == r.doc.metadata
        articles == RawOf(md.articles)
        appendices == RawOf(md.appendices)
        ma == MatchSubs(articles, "article", kws, tf, thrA, adaptive)
        mp == MatchSubs(appendices, "appendix", kws, tf, thrP, adaptive)
        total == Len(articles) + Len(appendices)
        precision == IF total > 0 THEN (1000 * (Len(ma) + Len(mp))) \div total ELSE 500
        diversity == DiversityScore(Len(ma), Len(articles), Len(mp), Len(appendices))
        subsection == SubsectionScore(MaxScoreOf(ma), MaxScoreOf(mp))
        bonus == MetadataMatchBonus(md)
        newBest == Max2(best, subsection)
        meta == [md EXCEPT !.matched_articles = [present |-> TRUE, items |-> ma],
                           !.matched_appendices = [present |-> TRUE, items |-> mp],
                           !.original_score = r.score,
                           !.subsection_score = subsection,
                           !.precision_score = precision,
                           !.diversity_score = diversity,
                           !.metadata_bonus = bonus,
                           !.has_best_match = (subsection = newBest),
                           !.total_matches = Len(ma) + Len(mp),
                           !.match_coverage = (Coverage(Len(ma), Len(articles))
                                               + Coverage(Len(mp), Len(appendices))) \div 2]
    IN  [has_matches |-> ma # <<>> \/ mp # <<>>,
         subsection_score |-> subsection,
         doc |-> Document(100 + i, r.doc.page_content, meta),
         score |-> EnhancedScore(r.score, subsection, diversity, precision, bonus)]

\* dict operations on doc_map
MapIndex(m, id) ==
    IF \E k \in 1..Len(m) : m[k].id = id THEN CHOOSE k \in 1..Len(m) : m[k].id = id ELSE 0

MapSet(m, id, doc, score) ==
    IF MapIndex(m, id) = 0 THEN Append(m, [id |-> id, doc |-> doc, score |-> score])
    ELSE [m EXCEPT ![MapIndex(m, id)] = [id |-> id, doc |-> doc, score |-> score]]

\* cosine similarity of the embeddings of two page_content[:1000]
DocSimilarity(c1, c2) == IF c1 = c2 THEN 1000 ELSE IF c1.sig = c2.sig THEN 900 ELSE 600

\* line 642
BoostedScore(score, sim) == (score * (1000 + (sim - 700) \div 2)) \div 1000

\* the first entry of enhanced_results with that page_content (lines 647-650)
FirstWithContent(res, content) ==
    IF \E i \in 1..Len(res) : res[i].doc.page_content = content
    THEN CHOOSE i \in 1..Len(res) :
             /\ res[i].doc.page_content = content
             /\ \A j \in 1..(i - 1) : res[j].doc.page_content # content
    ELSE 0

\* the loop of lines 635-650 from entry k of doc_map on
RECURSIVE RerankFrom(_, _, _, _, _)
RerankFrom(m, res, k, bestId, bestContent) ==
    IF k > Len(m) THEN [map |-> m, results |-> res]
    ELSE LET sim == DocSimilarity(bestContent, m[k].doc.page_content)
             boosted == BoostedScore(m[k].score, sim)
             i == FirstWithContent(res, m[k].doc.page_content)
         IN  IF m[k].id # bestId /\ sim > 700
             THEN RerankFrom([m EXCEPT ![k].score = boosted],
                             IF i = 0 THEN res ELSE [res EXCEPT ![i].score = boosted],
                             k + 1, bestId, bestContent)
             ELSE RerankFrom(m, res, k + 1, bestId, bestContent)

\* lines 659-669: the first entry of every content signature
RECURSIVE Deduplicate(_, _)
Deduplicate(res, seen) ==
    IF res = <<>> THEN <<>>
    ELSE IF Head(res).doc.page_content.sig \in seen THEN Deduplicate(Tail(res), seen)
    ELSE <<Head(res)>> \o Deduplicate(Tail(res), seen \cup {Head(res).doc.page_content.sig})

\* lines 655-672
FilteredResults(res, ms) == Take(AtLeast(Deduplicate(SortByScore(res), {}), ms), default_k)

\* min(range(len(x)), key=score): the first index of the lowest score
LowestIndex(res) ==
    CHOOSE i \in 1..Len(res) :
        /\ \A j \in 1..Len(res) : res[i].score <= res[j].score
        /\ \A j \in 1..(i - 1) : res[j].score > res[i].score

\* lines 739-758
Reinserted(filtered, m, bestId) ==
    IF (\E k \in 1..Len(filtered) : filtered[k].doc.metadata.has_best_match)
       \/ bestId = NoId \/ MapIndex(m, bestId) = 0
    THEN filtered
    ELSE LET b == Result(m[MapIndex(m, bestId)].doc, m[MapIndex(m, bestId)].score)
         IN  SortByScore(IF Len(filtered) >= default_k
                         THEN [filtered EXCEPT ![LowestIndex(filtered)] = b]
                         ELSE Append(filtered, b))

\* lines 655-766
SearchResult(res, m, bestId, ms) ==
    IF FilteredResults(res, ms) = <<>> THEN <<>>
    ELSE Reinserted(FilteredResults(res, ms), m, bestId)

\* ---- the query and the documents of the vector store ----
KwWord == <<"t", "a", "x">>
KwNumber == <<"2">>

SearchDocs ==
    [a |-> Document(0, PageContent(1, 1, {KwWord}),
               StoreMetadata("a",
                   ListField("list", <<SubStructure(<<"1", "2">>, <<>>, 1, {KwWord}, 900, TRUE),
                                       SubStructure(<<"3">>, <<>>, 2, {}, 300, FALSE)>>),
                   ListField("list", <<SubStructure(<<"1">>, <<"t", "a", "x">>, 3, {}, 600, FALSE)>>),
                   {"decision_number"})),
     b |-> Document(0, PageContent(1, 2, {}),
               StoreMetadata("b",
                   ListField("json", <<SubStructure(<<"7">>, <<>>, 4, {KwWord}, 600, FALSE),
                                       SubStructure(<<"5">>, <<>>, 5, {KwWord}, 450, FALSE)>>),
                   NoField, {})),
     c |-> Document(0, PageContent(2, 1, {KwWord, KwNumber}),
               StoreMetadata("", NoField,
                   ListField("list", <<SubStructure(<<"3">>, <<>>, 6, {KwWord}, 700, FALSE),
                                       SubStructure(<<"2">>, <<>>, 7, {}, 520, FALSE)>>),
                   {})),
     d |-> Document(0, PageContent(3, 1, {}),
               StoreMetadata("a", ListField("badjson", <<>>),
                   ListField("json", <<SubStructure(<<>>, <<>>, 8, {KwWord}, 650, TRUE)>>),
                   {"decision_number", "year", "chunk_type", "official_bulletin"})),
     e |-> Document(0, PageContent(4, 1, {}),
               StoreMetadata("e",
                   ListField("list", <<SubStructure(<<"1">>, <<>>, 9, {KwWord}, 610, FALSE),
                                       SubStructure(<<"4">>, <<>>, 10, {}, 300, FALSE),
                                       SubStructure(<<"6">>, <<>>, 11, {}, 300, FALSE)>>),
                   ListField("list", <<SubStructure(<<>>, <<"n">>, 12, {}, 300, FALSE),
                                       SubStructure(<<>>, <<"m">>, 13, {}, 300, FALSE)>>),
                   {})),
     f |-> Document(0, PageContent(5, 1, {}),
               StoreMetadata("f",
                   ListField("illtyped", <<SubStructure(<<"8">>, <<>>, 14, {KwWord}, 700, FALSE)>>),
                   ListField("list", <<SubStructure(<<"9">>, <<>>, 15, {KwWord}, 800, FALSE)>>),
                   {}))]

SearchPool ==
    {Result(SearchDocs.a, 900), Result(SearchDocs.a, 450), Result(SearchDocs.b, 900),
     Result(SearchDocs.b, 350), Result(SearchDocs.c, 600), Result(SearchDocs.d, 1000),
     Result(SearchDocs.d, 500), Result(SearchDocs.e, 400),
     Result(SearchDocs.f, 900)}

KeywordLists == {<<>>, <<KwWord>>, <<KwWord, KwNumber>>}

SeOff ==
    /\ query_keywords = <<>>
    /\ results = <<>>
    /\ idx = 0
    /\ enhanced_results = <<>>
    /\ doc_map = <<>>
    /\ best_subsection_score = 0
    /\ best_doc_id = NoId
    /\ found = <<>>
    /\ calls = <<>>
    /\ embedded = <<>>

\* retrieve at line 194, a rate limiter configured, fewer than 2 filters set
SeInit ==
    /\ spc = "retrieve"
    /\ min_score \in ConfiguredMinScores
    /\ all_subsection_scores = <<>>
    /\ adaptive_threshold = 0
    /\ article_threshold = 0
    /\ appendix_threshold = 0
    /\ query_keywords \in KeywordLists
    /\ \E n \in 0..MaxResults : \E r \in [1..n -> SearchPool] : results = WithRefs(r, 0)
    /\ idx = 0
    /\ enhanced_results = <<>>
    /\ doc_map = <<>>
    /\ best_subsection_score = 0
    /\ best_doc_id = NoId
    /\ found = <<>>
    /\ calls = <<>>
    /\ embedded = <<>>

\* lines 195-200: rate_limiter.wait(), then the chat model rewrites the query
RewriteQuery ==
    /\ spc = "retrieve"
    /\ calls' = calls \o <<"wait", "llm">>
    /\ spc' = "search"
    /\ UNCHANGED <<min_score, all_subsection_scores, adaptive_threshold, article_threshold,
                   appendix_threshold, query_keywords, results, idx, enhanced_results, doc_map,
                   best_subsection_score, best_doc_id, found, embedded>>

\* lines 281-306: the store is queried; with no result the searcher returns
\* at once, else it embeds the query
QueryStore ==
    /\ spc = "search"
    /\ calls' = calls \o <<"store">> \o (IF results = <<>> THEN <<>> ELSE <<"embed">>)
    /\ spc' = IF results = <<>> THEN "searched" ELSE "pass1"
    /\ UNCHANGED <<min_score, all_subsection_scores, adaptive_threshold, article_threshold,
                   appendix_threshold, query_keywords, results, idx, enhanced_results, doc_map,
                   best_subsection_score, best_doc_id, found, embedded>>

\* lines 311-365
Pass1 ==
    /\ spc = "pass1"
    /\ all_subsection_scores' = Pass1Scores(results, query_keywords, min_score)
    /\ embedded' = embedded \o Pass1Embedded(results, query_keywords, min_score)
    /\ calls' = calls \o EmbedCalls(Len(all_subsection_scores'))
    /\ spc' = "threshold"
    /\ UNCHANGED <<min_score, adaptive_threshold, article_threshold, appendix_threshold,
                   query_keywords, results, idx, enhanced_results, doc_map,
                   best_subsection_score, best_doc_id, found>>

\* lines 367-401, the search being under way
SearchThresholds ==
    /\ results # <<>>
    /\ ComputeThresholds
    /\ idx' = 1
    /\ UNCHANGED <<query_keywords, results, enhanced_results, doc_map, best_subsection_score,
                   best_doc_id, found, calls, embedded>>

\* one iteration of the loop of lines 403-623
Pass2Doc ==
    /\ spc = "pass2"
    /\ idx \in 1..Len(results)
    /\ LET r == results[idx]
           tf == TermFrequency(query_keywords, results)
           p == Pass2Of(r, idx, query_keywords, tf, article_threshold, appendix_threshold,
                        adaptive_threshold, best_subsection_score)
           id == DocId(r.doc.metadata, idx)
       IN  IF Skipped(r.score, min_score)
           THEN UNCHANGED <<enhanced_results, doc_map, best_subsection_score, best_doc_id, calls,
                            embedded>>
           ELSE /\ embedded' = embedded \o EmbeddedOf(r.doc.metadata, query_keywords)
                /\ calls' = calls \o EmbedCalls(Len(EmbeddedOf(r.doc.metadata, query_keywords)))
                /\ IF p.has_matches /\ ~Raises(r.doc.metadata.articles)
                      /\ ~Raises(r.doc.metadata.appendices)
                   THEN /\ best_subsection_score' = Max2(best_subsection_score, p.subsection_score)
                        /\ best_doc_id' = IF p.subsection_score > best_subsection_score
                                          THEN id ELSE best_doc_id
                        /\ doc_map' = MapSet(doc_map, id, p.doc, p.score)
                        /\ enhanced_results' = Append(enhanced_results, Result(p.doc, p.score))
                   ELSE UNCHANGED <<enhanced_results, doc_map, best_subsection_score, best_doc_id>>
    /\ idx' = idx + 1
    /\ spc' = IF idx = Len(results) THEN "rerank" ELSE "pass2"
    /\ UNCHANGED <<min_score, all_subsection_scores, adaptive_threshold, article_threshold,
                   appendix_threshold, query_keywords, results, found>>

\* lines 626-652
Rerank ==
    /\ spc = "rerank"
    /\ IF best_doc_id # NoId /\ MapIndex(doc_map, best_doc_id) # 0
       THEN LET best == doc_map[MapIndex(doc_map, best_doc_id)].doc
                r == RerankFrom(doc_map, enhanced_results, 1, best_doc_id, best.page_content)
            IN  /\ doc_map' = r.map
                /\ enhanced_results' = r.results
                /\ calls' = calls \o EmbedCalls(Len(doc_map))
       ELSE UNCHANGED <<doc_map, enhanced_results, calls>>
    /\ spc' = "select"
    /\ UNCHANGED <<min_score, all_subsection_scores, adaptive_threshold, article_threshold,
                   appendix_threshold, query_keywords, results, idx, best_subsection_score,
                   best_doc_id, found, embedded>>

\* lines 655-766
SelectResults ==
    /\ spc = "select"
    /\ found' = SearchResult(enhanced_results, doc_map, best_doc_id, min_score)
    /\ spc' = "searched"
    /\ UNCHANGED <<min_score, all_subsection_scores, adaptive_threshold, article_threshold,
                   appendix_threshold, query_keywords, results, idx, enhanced_results, doc_map,
                   best_subsection_score, best_doc_id, calls, embedded>>

(***************************************************************************)
(* The workflow graph (src/src/graph/rag_graph.py): one action per node,   *)
(* each followed by the routing function of the node's outgoing edge       *)
(***************************************************************************)
MaxNodeRuns == 8         \* node executions explored in one run of the graph

\* RAGGraph.__init__ (lines 72-74) and the initial state of
\* rag_pipeline.py:118-155; keeps tells whether an assignment a routing
\* function makes to the state it is handed is part of the state afterwards
GrInit ==
    /\ gpc = "query_analyzer"
    /\ \E r \in {1, 2, 3} : \E g \in {1, 2} : \E client, keeps \in BOOLEAN :
           graph_config = [max_retrieval_attempts |-> Min2(r, 2),
                           max_generation_attempts |-> Min2(g, 1),
                           search_client |-> client,
                           keeps |-> keeps]
    /\ rag_state = [is_related_to_index |-> "None", docs_relevant |-> "None",
                    has_hallucinations |-> "None", answers_question |-> "None",
                    retry_count |-> 0]
    /\ executed = <<>>

GrOff ==
    /\ gpc = "off"
    /\ graph_config = [max_retrieval_attempts |-> 2, max_generation_attempts |-> 1,
                       search_client |-> FALSE, keeps |-> FALSE]
    /\ rag_state = [is_related_to_index |-> "None", docs_relevant |-> "None",
                    has_hallucinations |-> "None", answers_question |-> "None",
                    retry_count |-> 0]
    /\ executed = <<>>

\* route_from_analysis (lines 183-197) through the edge map of lines 113-120
RouteFromAnalysis(state) ==
    IF state.is_related_to_index = TRUE THEN "retriever"
    ELSE IF graph_config.search_client THEN "web_searcher"
    ELSE "retriever"

\* check_retrieval_attempts (lines 199-207) through the edge map of lines 124-131
CheckRetrievalAttempts(state) ==
    IF state.retry_count >= graph_config.max_retrieval_attempts THEN "END" ELSE "grader"

\* check_docs_relevance (lines 209-217) through the edge map of lines 135-142
CheckDocsRelevance(state) ==
    IF state.docs_relevant = TRUE THEN "generator" ELSE "END"

CheckGenerationQualityRetry(state) ==
    IF state.has_hallucinations = TRUE \/ state.answers_question # TRUE
    THEN [next |-> "retriever", retry_count |-> state.retry_count]
    ELSE [next |-> "END", retry_count |-> state.retry_count]

\* check_generation_quality (lines 219-239) through the edge map of lines
\* 150-158: the node to run next and the retry_count the function leaves in
\* the state it was handed
CheckGenerationQuality(state) ==
    IF state.retry_count >= graph_config.max_generation_attempts
    THEN [next |-> "END", retry_count |-> state.retry_count]
    ELSE IF state.has_hallucinations = TRUE \/ state.answers_question # TRUE
    THEN [next |-> IF state.retry_count + 1 < graph_config.max_generation_attempts
                   THEN "retriever" ELSE "END",
          retry_count |-> state.retry_count + 1]
    ELSE [next |-> "END", retry_count |-> state.retry_count]

\* the query_analyzer node (QueryAnalyzer.analyze), then route_from_analysis
QueryAnalyzerNode ==
    /\ gpc = "query_analyzer"
    /\ Len(executed) < MaxNodeRuns
    /\ \E related \in BOOLEAN :
           /\ rag_state' = [rag_state EXCEPT !.is_related_to_index = related]
           /\ gpc' = RouteFromAnalysis(rag_state')
           /\ executed' = Append(executed, [node |-> "query_analyzer", poor |-> FALSE])
    /\ UNCHANGED graph_config

\* the retriever node (Retriever.retrieve), then check_retrieval_attempts
RetrieverNode ==
    /\ gpc = "retriever"
    /\ Len(executed) < MaxNodeRuns
    /\ gpc' = CheckRetrievalAttempts(rag_state)
    /\ executed' = Append(executed, [node |-> "retriever", poor |-> FALSE])
    /\ UNCHANGED <<rag_state, graph_config>>

\* the grader node (Grader.grade), then check_docs_relevance
GraderNode ==
    /\ gpc = "grader"
    /\ Len(executed) < MaxNodeRuns
    /\ \E relevant \in BOOLEAN :
           /\ rag_state' = [rag_state EXCEPT !.docs_relevant = relevant]
           /\ gpc' = CheckDocsRelevance(rag_state')
           /\ executed' = Append(executed, [node |-> "grader", poor |-> FALSE])
    /\ UNCHANGED graph_config

\* the generator node (Generator.generate), then check_generation_quality
GeneratorNode ==
    /\ gpc = "generator"
    /\ Len(executed) < MaxNodeRuns
    /\ \E hallucinates, answers \in BOOLEAN :
           LET generated == [rag_state EXCEPT !.has_hallucinations = hallucinates,
                                              !.answers_question = answers]
               quality == CheckGenerationQuality(generated)
           IN  /\ rag_state' = IF graph_config.keeps
                               THEN [generated EXCEPT !.retry_count = quality.retry_count]
                               ELSE generated
               /\ gpc' = quality.next
               /\ executed' = Append(executed, [node |-> "generator", poor |-> hallucinates \/ ~answers])
    /\ UNCHANGED graph_config

\* the web_searcher node (WebSearcher.search), then the edge of line 146
WebSearcherNode ==
    /\ gpc = "web_searcher"
    /\ Len(executed) < MaxNodeRuns
    /\ gpc' = "generator"
    /\ executed' = Append(executed, [node |-> "web_searcher", poor |-> FALSE])
    /\ UNCHANGED <<rag_state, graph_config>>

(***************************************************************************)
(* Specifications                                                          *)
(***************************************************************************)
InitRL == RLInit /\ ThOff /\ EnOff /\ MgOff /\ SeOff /\ GrOff
NextRL ==
    \/ \E c \in Callers : WaitNoSleep(c) /\ UNCHANGED <<thvars, envars, mgvars, sevars, grvars>>
    \/ \E c \in Callers : WaitSleep(c) /\ UNCHANGED <<thvars, envars, mgvars, sevars, grvars>>
    \/ \E c \in Callers : WaitWake(c) /\ UNCHANGED <<thvars, envars, mgvars, sevars, grvars>>
    \/ Tick /\ UNCHANGED <<thvars, envars, mgvars, sevars, grvars>>
SpecRL == InitRL /\ [][NextRL]_vars

InitThreshold == ThInit /\ RLOff /\ EnOff /\ MgOff /\ SeOff /\ GrOff
NextThreshold == ComputeThresholds /\ UNCHANGED <<rlvars, envars, mgvars, sevars, grvars>>
SpecThreshold == InitThreshold /\ [][NextThreshold]_vars

InitEnsure == EnInit /\ RLOff /\ ThOff /\ MgOff /\ SeOff /\ GrOff
NextEnsure ==
    \/ Ensure /\ UNCHANGED <<rlvars, thvars, mgvars, sevars, grvars>>
    \/ EnsureAgain /\ UNCHANGED <<rlvars, thvars, mgvars, sevars, grvars>>
SpecEnsure == InitEnsure /\ [][NextEnsure]_vars

InitMerge == MgInit /\ RLOff /\ ThConfigured /\ EnOff /\ SeOff /\ GrOff
NextMerge ==
    \/ Dense /\ UNCHANGED <<rlvars, thvars, envars, sevars, grvars>>
    \/ Sparse /\ UNCHANGED <<rlvars, thvars, envars, sevars, grvars>>
    \/ Merge /\ UNCHANGED <<rlvars, thvars, envars, sevars, grvars>>
    \/ LogAndReturn /\ UNCHANGED <<rlvars, thvars, envars, sevars, grvars>>
SpecMerge == InitMerge /\ [][NextMerge]_vars

InitSearch == SeInit /\ RLOff /\ EnOff /\ MgOff /\ GrOff
NextSearch ==
    \/ RewriteQuery /\ UNCHANGED <<rlvars, envars, mgvars, grvars>>
    \/ QueryStore /\ UNCHANGED <<rlvars, envars, mgvars, grvars>>
    \/ Pass1 /\ UNCHANGED <<rlvars, envars, mgvars, grvars>>
    \/ SearchThresholds /\ UNCHANGED <<rlvars, envars, mgvars, grvars>>
    \/ Pass2Doc /\ UNCHANGED <<rlvars, envars, mgvars, grvars>>
    \/ Rerank /\ UNCHANGED <<rlvars, envars, mgvars, grvars>>
    \/ SelectResults /\ UNCHANGED <<rlvars, envars, mgvars, grvars>>
SpecSearch == InitSearch /\ [][NextSearch]_vars

\* one request at either of its stages: the subsection search of line 803,
\* or the two retrieval calls and the merge around what their callees answer
InitRetrieval == InitSearch \/ InitMerge
NextRetrieval ==
    \/ RewriteQuery /\ UNCHANGED <<rlvars, envars, mgvars, grvars>>
    \/ QueryStore /\ UNCHANGED <<rlvars, envars, mgvars, grvars>>
    \/ Pass1 /\ UNCHANGED <<rlvars, envars, mgvars, grvars>>
    \/ SearchThresholds /\ UNCHANGED <<rlvars, envars, mgvars, grvars>>
    \/ Pass2Doc /\ UNCHANGED <<rlvars, envars, mgvars, grvars>>
    \/ Rerank /\ UNCHANGED <<rlvars, envars, mgvars, grvars>>
    \/ SelectResults /\ UNCHANGED <<rlvars, envars, mgvars, grvars>>
    \/ Dense /\ UNCHANGED <<rlvars, thvars, envars, sevars, grvars>>
    \/ Sparse /\ UNCHANGED <<rlvars, thvars, envars, sevars, grvars>>
    \/ Merge /\ UNCHANGED <<rlvars, thvars, envars, sevars, grvars>>
    \/ LogAndReturn /\ UNCHANGED <<rlvars, thvars, envars, sevars, grvars>>
SpecRetrieval == InitRetrieval /\ [][NextRetrieval]_vars

\* one query through the compiled graph; the executor runs the next node as
\* long as there is one
InitGraph == GrInit /\ RLOff /\ ThOff /\ EnOff /\ MgOff /\ SeOff
NextGraph ==
    \/ QueryAnalyzerNode /\ UNCHANGED <<rlvars, thvars, envars, mgvars, sevars>>
    \/ RetrieverNode /\ UNCHANGED <<rlvars, thvars, envars, mgvars, sevars>>
    \/ GraderNode /\ UNCHANGED <<rlvars, thvars, envars, mgvars, sevars>>
    \/ GeneratorNode /\ UNCHANGED <<rlvars, thvars, envars, mgvars, sevars>>
    \/ WebSearcherNode /\ UNCHANGED <<rlvars, thvars, envars, mgvars, sevars>>
SpecGraph == InitGraph /\ [][NextGraph]_vars /\ WF_vars(NextGraph)

(***************************************************************************)
(* Claims about the completeness step                                      *)
(***************************************************************************)
Ensured == epc \in {"ensured", "ensured2"}

Count(s, x) == Cardinality({k \in 1..Len(s) : s[k] = x})
SameBag(s, t) ==
    /\ Len(s) = Len(t)
    /\ \A k \in 1..Len(s) : Count(s, s[k]) = Count(t, s[k])

\* C3: after the completeness step the matched lists are as long as the raw
\* lists, whenever the raw list is non-empty
C3_CompleteCounts ==
    Ensured =>
        /\ RawOf(edoc.articles) # <<>> =>
               Len(edoc.matched_articles.items) = Len(RawOf(edoc.articles))
        /\ RawOf(edoc.appendices) # <<>> =>
               Len(edoc.matched_appendices.items) = Len(RawOf(edoc.appendices))

\* the complete list the claim describes: accepted copies kept, every other
\* raw entry added with similarity_score 0.0 and is_high_match false
ExpectedComplete(raw, mask) ==
    [k \in 1..Len(raw) |-> IF k \in mask THEN AcceptedCopy(raw[k], k) ELSE ZeroMatch(raw[k])]

PartiallyMatched(raw, mask) == mask # {} /\ mask # 1..Len(raw)

\* C4: with only some sub-structures matched, the step adds exactly the
\* unmatched ones with score 0.0 and is_high_match false and keeps every
\* matched entry as it was
C4_AddsExactlyUnmatched ==
    (epc = "ensured") =>
        /\ PartiallyMatched(RawOf(edoc.articles), ematched.a) =>
               SameBag(edoc.matched_articles.items,
                       ExpectedComplete(RawOf(edoc.articles), ematched.a))
        /\ PartiallyMatched(RawOf(edoc.appendices), ematched.p) =>
               SameBag(edoc.matched_appendices.items,
                       ExpectedComplete(RawOf(edoc.appendices), ematched.p))

IsSortedByNumber(s) ==
    \A k \in 1..(Len(s) - 1) :
        ExtractNumericPart(s[k].number) <= ExtractNumericPart(s[k + 1].number)

(***************************************************************************)
(* Claims about hybrid retrieval                                           *)
(***************************************************************************)
Merged == mpc \in {"merged", "done"}

HasPositiveMatch(md) ==
    \/ \E k \in 1..Len(md.matched_articles.items) : md.matched_articles.items[k].similarity_score > 0
    \/ \E k \in 1..Len(md.matched_appendices.items) : md.matched_appendices.items[k].similarity_score > 0

MatchedRemoved(md) == ~md.matched_articles.present /\ ~md.matched_appendices.present

\* C2: the list _merge_results returns holds at most one document with a
\* matched list that has a positive similarity_score, and every other
\* document of the list has matched_articles and matched_appendices removed
C2_SingleMatchedDocument ==
    (Merged /\ docs # <<>>) =>
        /\ Cardinality({k \in 1..Len(docs) : HasPositiveMatch(docs[k].doc.metadata)}) <= 1
        /\ \E h \in 1..Len(docs) :
               \A k \in 1..Len(docs) :
                   k # h => /\ MatchedRemoved(docs[k].doc.metadata)
                            /\ ~HasPositiveMatch(docs[k].doc.metadata)

\* two documents of different content reach the merge with positive matches,
\* both are merged, and one of them keeps its matches
C2_Witness ==
    /\ mpc = "merged"
    /\ Len(docs) = 2
    /\ docs[1].doc.page_content # docs[2].doc.page_content
    /\ \E k \in 1..2 : HasPositiveMatch(docs[k].doc.metadata)
    /\ \A k \in 1..2 :
           \E x \in {dense_docs[i] : i \in 1..Len(dense_docs)}
                       \cup {sparse_docs[i] : i \in 1..Len(sparse_docs)} :
               /\ x.doc.ref = docs[k].doc.ref
               /\ HasPositiveMatch(x.doc.metadata)

MatchedListsSorted(res) ==
    \A k \in 1..Len(res) :
        /\ IsSortedByNumber(res[k].doc.metadata.matched_articles.items)
        /\ IsSortedByNumber(res[k].doc.metadata.matched_appendices.items)

\* C5: in every document retrieval returns, matched_articles and
\* matched_appendices are in non-decreasing order of the first number in
\* article_number / appendix_number, entries without a number last
C5_MatchedListsSorted ==
    /\ (mpc \in {"dense", "sparse", "merged", "done"}) => MatchedListsSorted(dense_docs)
    /\ (mpc \in {"sparse", "merged", "done"}) => MatchedListsSorted(sparse_docs)
    /\ Merged => MatchedListsSorted(docs)

\* a returned document whose raw articles are out of order (one of them
\* without a number, or 10 before 2) carries all of them
C5_Witness ==
    /\ mpc = "done"
    /\ \E k \in 1..Len(docs) :
           LET md == docs[k].doc.metadata
           IN  /\ ~IsSortedByNumber(RawOf(md.articles))
               /\ Len(md.matched_articles.items) = Len(RawOf(md.articles))
               /\ HasPositiveMatch(md)
    /\ \E k \in 1..Len(dense_docs) :
           LET md == dense_docs[k].doc.metadata
           IN  /\ Len(md.matched_appendices.items) = 2
               /\ ~IsSortedByNumber(RawOf(md.appendices))

Searched == spc = "searched"

\* C1: every score in a list the retrieval functions return lies in [0, 1];
\* stated for the list _search_articles_and_appendices returns, which
\* _dense_retrieval passes on and _merge_results fuses
C1_ScoresInUnitInterval ==
    Searched => \A k \in 1..Len(found) : found[k].score >= 0 /\ found[k].score <= 1000

\* C8: every call of the chat model and of the embedding function comes
\* right after a completed RateLimiter.wait of its own
C8_EveryCallAfterWait ==
    \A k \in 1..Len(calls) :
        calls[k] \in {"llm", "embed"} => (k > 1 /\ calls[k - 1] = "wait")

\* C6: with fewer than 2 filters set, _dense_retrieval issues no vector-store
\* query of its own, whatever the subsection search returns
C6_NoWeakFilterQuery ==
    \A k \in 1..Len(queries) : queries[k].conditions >= 2

ThresholdsComputed == spc = "pass2"

\* C9 as claimed: the thresholds pass 2 accepts with lie in [min_score, 0.75]
\* and equal the smaller estimate when that lies in between
C9_AcceptanceThresholdBounds ==
    (ThresholdsComputed /\ all_subsection_scores # <<>>) =>
        LET est == Min2(EstimateStd(all_subsection_scores), EstimateTop(all_subsection_scores))
        IN  \A thr \in {article_threshold, appendix_threshold} :
                /\ thr >= min_score * 100
                /\ thr <= 75000
                /\ (min_score <= est /\ est <= 750) => thr = est * 100

\* C9 amended: the adaptive threshold is never below min_score, never above
\* max(min_score, 0.75), equals the smaller of mean + 0.5*stddev and
\* (mean + p80)/2 when that lies in [min_score, 0.75]; pass 2 accepts with
\* 0.95 (articles) and 0.90 (appendices) of it
C9_AdaptiveThresholdBounds ==
    (ThresholdsComputed /\ all_subsection_scores # <<>>) =>
        LET est == Min2(EstimateStd(all_subsection_scores), EstimateTop(all_subsection_scores))
        IN  /\ adaptive_threshold >= min_score
            /\ adaptive_threshold <= Max2(min_score, 750)
            /\ (min_score <= 750) => adaptive_threshold <= 750
            /\ (min_score <= est /\ est <= 750) => adaptive_threshold = est
            /\ article_threshold * 100 = adaptive_threshold * 95 * 100
            /\ appendix_threshold * 100 = adaptive_threshold * 90 * 100

C9_Witness ==
    /\ ThresholdsComputed
    /\ Len(all_subsection_scores) >= 2
    /\ min_score = 500
    /\ adaptive_threshold > 500
    /\ adaptive_threshold < 750
    /\ article_threshold < adaptive_threshold * 100

AllBelow(scores, ms) == \A k \in 1..Len(scores) : scores[k] < ms

\* C10: with no pass-1 score, or with every pass-1 score below min_score,
\* the adaptive threshold equals min_score exactly
C10_FallbackToMinScore ==
    (ThresholdsComputed /\ AllBelow(all_subsection_scores, min_score)) =>
        adaptive_threshold = min_score

C10_Witness ==
    /\ ThresholdsComputed
    /\ Len(all_subsection_scores) = 3
    /\ \A k \in 1..3 : all_subsection_scores[k] \in {280, 300, 320}
    /\ \E k \in 1..3 : all_subsection_scores[k] # 300
    /\ min_score = 500
    /\ adaptive_threshold = 500

\* releases of instance i in the trailing window (t - Window, t]
ReleasesInWindow(i, t) ==
    Cardinality({k \in 1..Len(released) :
                    /\ released[k].inst = i
                    /\ released[k].at > t - Window
                    /\ released[k].at <= t})

\* C7: in every trailing 60-second window at most requests_per_minute calls
\* of wait on a limiter return, for any number of callers and any interleaving
C7_WindowBudget ==
    \A i \in Instances : \A t \in 0..MaxTime :
        ReleasesInWindow(i, t) <= RequestsPerMinute

(***************************************************************************)
(* Claims about the returned lists                                         *)
(***************************************************************************)
\* no two entries of the list share page_content[:200].strip()
DistinctSignatures(res) ==
    \A i, j \in 1..Len(res) :
        i # j => res[i].doc.page_content.sig # res[j].doc.page_content.sig

\* C11: no two documents in the final output of retrieval share their
\* leading 200 characters, through the searcher's deduplication, its
\* best-match re-insertion and the merge
C11_NoSharedLeadingContent ==
    /\ Searched => DistinctSignatures(found)
    /\ (mpc = "done") => DistinctSignatures(docs)

\* the highest subsection_score among the candidates pass 2 scored
HighestSubsectionScore(res) ==
    IF res = <<>> THEN 0
    ELSE MaxOf({SubsectionScoreOf(res[k].doc.metadata) : k \in 1..Len(res)})

\* C12: in the list _search_articles_and_appendices returns at most one
\* document has has_best_match set, and it is the one with the highest
\* subsection_score among all scored candidates
C12_SingleBestMatch ==
    Searched =>
        /\ Cardinality({k \in 1..Len(found) : found[k].doc.metadata.has_best_match}) <= 1
        /\ \A k \in 1..Len(found) :
               found[k].doc.metadata.has_best_match =>
                   SubsectionScoreOf(found[k].doc.metadata) = HighestSubsectionScore(enhanced_results)

\* the scores a list gives to a page_content
ScoresOf(res, content) ==
    {res[k].score : k \in {i \in 1..Len(res) : res[i].doc.page_content = content}}

\* C13: every merged content has the fused score 0.7*d + 0.3*s of its dense
\* score d and its sparse score s (0.7*d in the dense list only, 0.3*s in
\* the sparse list only), and the merged list holds each content once
C13_FusedScore ==
    Merged =>
        /\ \A k \in 1..Len(docs) :
               LET ds == ScoresOf(dense_docs, docs[k].doc.page_content)
                   ss == ScoresOf(sparse_docs, docs[k].doc.page_content)
               IN  /\ \A d \in ds : \A sp \in ss : 10 * docs[k].score = 7 * d + 3 * sp
                   /\ ss = {} => \A d \in ds : 10 * docs[k].score = 7 * d
                   /\ ds = {} => \A sp \in ss : 10 * docs[k].score = 3 * sp
        /\ \A i, j \in 1..Len(docs) :
               i # j => docs[i].doc.page_content # docs[j].doc.page_content

\* C14: the list _merge_results returns is in descending order of fused
\* score, has no entry with a fused score below min_score, and has at most
\* max_k entries
C14_MergedSortedCutAndBounded ==
    Merged =>
        /\ IsSortedByScore(docs)
        /\ \A k \in 1..Len(docs) : docs[k].score >= min_score
        /\ Len(docs) <= max_k

\* the sparse contribution lifts the second dense document above the first,
\* and both are returned
C14_Witness ==
    /\ mpc = "merged"
    /\ ~IsSortedByScore(FusedScores(dense_docs, sparse_docs))
    /\ Len(docs) = 2
    /\ docs[1].score > docs[2].score

\* at most default_k entries, in descending score order, none below ms
BoundedSortedAndCut(res, ms) ==
    /\ Len(res) <= default_k
    /\ IsSortedByScore(res)
    /\ \A k \in 1..Len(res) : res[k].score >= ms

\* C15: every list _dense_retrieval returns, on the filter path and on the
\* path delegated to the subsection searcher, has at most default_k entries,
\* is in descending score order and has no score below min_score, the
\* re-inserted best-match document included
C15_DenseBoundedSortedAndCut ==
    /\ Searched => BoundedSortedAndCut(found, min_score)
    /\ (mpc \in {"dense", "sparse", "merged", "done"}) =>
           BoundedSortedAndCut(dense_docs, min_score)

(***************************************************************************)
(* Claims about malformed metadata                                         *)
(***************************************************************************)
Pass2Done == spc \in {"rerank", "select", "searched"}

Malformed(f) == f.present /\ f.form \in {"badjson", "illtyped"}

HasIllTypedEntry(f) == f.present /\ f.form = "illtyped"

\* the metadata with every malformed field replaced by an empty list
WithoutMalformed(md) ==
    [md EXCEPT !.articles = IF Malformed(@) THEN ListField("list", <<>>) ELSE @,
               !.appendices = IF Malformed(@) THEN ListField("list", <<>>) ELSE @]

\* WithoutMalformed for the fields json.loads rejects only
WithoutBadJson(md) ==
    [md EXCEPT !.articles = IF @.form = "badjson" THEN ListField("list", <<>>) ELSE @,
               !.appendices = IF @.form = "badjson" THEN ListField("list", <<>>) ELSE @]

\* what pass 2 makes of results[i] when it reads metadata md for it
ScoredAs(i, md) ==
    Pass2Of([results[i] EXCEPT !.doc.metadata = md], i, query_keywords,
            TermFrequency(query_keywords, results), article_threshold, appendix_threshold,
            adaptive_threshold, 0)

\* pass 2 produced, for results[i], the matches and the subsection score p has
ScoredLike(i, p) ==
    \E k \in 1..Len(enhanced_results) :
        LET md == enhanced_results[k].doc.metadata
        IN  /\ enhanced_results[k].doc.ref = 100 + i
            /\ md.matched_articles = p.doc.metadata.matched_articles
            /\ md.matched_appendices = p.doc.metadata.matched_appendices
            /\ md.subsection_score = p.subsection_score

NotScored(i) == \A k \in 1..Len(enhanced_results) : enhanced_results[k].doc.ref # 100 + i

Candidates == {i \in 1..Len(results) : ~Skipped(results[i].score, min_score)}

StoreObjects ==
    {dense_in.stored[k].doc : k \in 1..Len(dense_in.stored)}
    \cup {sparse_in.stored[k].doc : k \in 1..Len(sparse_in.stored)}

\* C17: retrieval never modifies a Document object the vector store
\* returned, nor its metadata: an object of the store that is in the
\* returned list has the metadata the store gave it
C17_StoreObjectsUnchanged ==
    Merged =>
        \A k \in 1..Len(docs) :
            \A d \in StoreObjects :
                d.ref = docs[k].doc.ref => docs[k].doc.metadata = d.metadata

(***************************************************************************)
(* Claims about the keyword pre-filter                                     *)
(***************************************************************************)
\* the articles and appendices of the candidate documents
CandidateSubs ==
    UNION {{RawOf(results[i].doc.metadata.articles)[k] :
                k \in 1..Len(RawOf(results[i].doc.metadata.articles))}
           \cup {RawOf(results[i].doc.metadata.appendices)[k] :
                k \in 1..Len(RawOf(results[i].doc.metadata.appendices))} : i \in Candidates}

\* C18: in both passes embed_query is called for an article or appendix
\* only when its text passed the keyword test; a sub-structure whose text
\* holds none of the query keywords is never embedded
C18_EmbeddedAfterKeywordTest ==
    /\ \A k \in 1..Len(embedded) : ContainsKeywords(embedded[k], query_keywords)
    /\ \A x \in CandidateSubs :
           ~ContainsKeywords(x, query_keywords) =>
               \A k \in 1..Len(embedded) : embedded[k] # x

\* both passes are over; a candidate document has a sub-structure with a
\* keyword, embedded once in each pass, next to one without a keyword
C18_Witness ==
    /\ Pass2Done
    /\ \E i \in Candidates :
           LET a == RawOf(results[i].doc.metadata.articles)
           IN  /\ Len(a) >= 2
               /\ ContainsKeywords(a[1], query_keywords)
               /\ ~ContainsKeywords(a[2], query_keywords)
               /\ Cardinality({k \in 1..Len(embedded) : embedded[k] = a[1]}) >= 2

(***************************************************************************)
(* Claims about empty results                                              *)
(***************************************************************************)
\* no entry of the list has a score of at least ms
NoneSurvives(res, ms) == AtLeast(res, ms) = <<>>

\* what the callees of one _dense_retrieval call answered leaves nothing:
\* no document from the searcher, none of the store's at or above min_score
NothingToReturn(in) == in.found = <<>> /\ NoneSurvives(in.stored, min_score)

\* C19: when the vector store returns no result, or no result survives the
\* score cutoff, _search_articles_and_appendices, _dense_retrieval and
\* _merge_results each return an empty list
C19_EmptyWhenNothingSurvives ==
    /\ (Searched /\ (results = <<>> \/ NoneSurvives(enhanced_results, min_score))) =>
           found = <<>>
    /\ (mpc \in {"dense", "sparse", "merged", "done"} /\ NothingToReturn(dense_in)) =>
           dense_docs = <<>>
    /\ (mpc \in {"sparse", "merged", "done"} /\ NothingToReturn(sparse_in)) =>
           sparse_docs = <<>>
    /\ (Merged /\ NoneSurvives(FusedScores(dense_docs, sparse_docs), min_score)) =>
           docs = <<>>

\* the store answers the sparse call with documents below min_score only, the
\* dense call returns a document, and its fused score is below min_score
C19_Witness ==
    /\ mpc = "merged"
    /\ sparse_in.stored # <<>>
    /\ sparse_docs = <<>>
    /\ dense_docs # <<>>
    /\ docs = <<>>

(***************************************************************************)
(* Claims about the timestamp RateLimiter.wait records                     *)
(***************************************************************************)
\* C20: a wait that found the budget exhausted sleeps first and records its
\* timestamp afterwards: the timestamp it appends is not earlier than the
\* moment its sleep ended
C20_StampNotBeforeWake ==
    \A k \in 1..Len(released) :
        released[k].slept => released[k].stamp >= released[k].woke

(***************************************************************************)
(* Claims about the boosts and the bonus                                   *)
(***************************************************************************)
\* the sum of the normalized weights of the keywords the text contains
KeywordWeightSum(x, kws, tf) ==
    SeqSum([k \in 1..Len(kws) |-> IF KeywordIn(kws[k], x) THEN tf[k] ELSE 0])

\* an article whose boost factor is the term-frequency boost alone: no key
\* flag, no importance, no digit keyword in its number
OnlyTermBoosted(a, kws) ==
    /\ ~a.key
    /\ a.importance = 0
    /\ ~\E k \in 1..Len(kws) : IsDigitString(kws[k]) /\ IsSubstring(kws[k], a.number)

\* C21: the term-frequency boost of a sub-structure is the sum of the
\* normalized weights of the keywords its text contains, capped at 0.5: an
\* accepted article that has no other boost carries the factor 1 + min(0.5, sum)
C21_TermBoostIsCappedSum ==
    Pass2Done =>
        \A i \in 1..Len(enhanced_results) :
            LET ma == enhanced_results[i].doc.metadata.matched_articles.items
                tf == TermFrequency(query_keywords, results)
            IN  \A k \in 1..Len(ma) :
                    OnlyTermBoosted(ma[k], query_keywords) =>
                        ma[k].boost_factor
                            = 1000 + Min2(500, KeywordWeightSum(ma[k], query_keywords, tf))

\* the weight the specification gives to an exact match of a metadata field
MatchWeight(field) ==
    CASE field = "decision_number" -> 200
      [] field = "year" -> 150
      [] field = "chunk_type" -> 100
      [] field = "official_bulletin" -> 100

RECURSIVE WeightOfMatches(_)
WeightOfMatches(fields) ==
    IF fields = {} THEN 0
    ELSE LET f == CHOOSE f \in fields : TRUE
         IN  MatchWeight(f) + WeightOfMatches(fields \ {f})

MatchFields == {"decision_number", "year", "chunk_type", "official_bulletin"}

\* C22: the metadata-exact-match bonus is the sum of +0.2, +0.15, +0.1 and
\* +0.1 over the matches that hold, capped at 0.4, and so lies in [0, 0.4],
\* for every combination of matches and for every document pass 2 has scored
C22_MetadataBonusCappedSum ==
    /\ \A held \in SUBSET MatchFields :
           /\ MetadataMatchBonus([bonus |-> held]) = Min2(400, WeightOfMatches(held))
           /\ MetadataMatchBonus([bonus |-> held]) \in 0..400
    /\ Pass2Done =>
           \A i \in 1..Len(enhanced_results) :
               LET md == enhanced_results[i].doc.metadata
               IN  /\ md.metadata_bonus = Min2(400, WeightOfMatches(md.bonus))
                   /\ md.metadata_bonus \in 0..400

\* pass 2 has scored a document whose matches add up to more than 0.4 and
\* one with a single match
C22_Witness ==
    /\ Pass2Done
    /\ \E i \in 1..Len(enhanced_results) :
           /\ WeightOfMatches(enhanced_results[i].doc.metadata.bonus) > 400
           /\ enhanced_results[i].doc.metadata.metadata_bonus = 400
    /\ \E i \in 1..Len(enhanced_results) :
           enhanced_results[i].doc.metadata.metadata_bonus = 200

(***************************************************************************)
(* Claims about acceptance in pass 2                                       *)
(***************************************************************************)
\* the accepted copy of the raw sub-structure x is in the matched list
MatchedCopies(matched, x) == {k \in 1..Len(matched) : matched[k].text = x.text}

\* x is in the matched list exactly if its boosted similarity reaches thr,
\* and its copy is a high match exactly if it reaches thr + 0.1
AcceptedAt(matched, x, similarity, thr) ==
    /\ MatchedCopies(matched, x) # {} <=> similarity * 100 >= thr
    /\ \A k \in MatchedCopies(matched, x) :
           /\ matched[k].similarity_score = similarity
           /\ matched[k].is_high_match <=> similarity * 100 >= thr + 10000

\* C23: in pass 2 a keyword-surviving sub-structure is in the matched list
\* exactly if its boosted similarity is at least the threshold of its kind,
\* and is_high_match is true exactly if it is at least that threshold plus 0.1
C23_AcceptedAtKindThreshold ==
    Pass2Done =>
        \A i \in 1..Len(enhanced_results) :
            LET md == enhanced_results[i].doc.metadata
                tf == TermFrequency(query_keywords, results)
                articles == RawOf(md.articles)
                appendices == RawOf(md.appendices)
            IN  /\ \A k \in 1..Len(articles) :
                       ContainsKeywords(articles[k], query_keywords) =>
                           AcceptedAt(md.matched_articles.items, articles[k],
                                      (articles[k].cos * ArticleBoost(articles[k], query_keywords, tf))
                                          \div 1000,
                                      article_threshold)
                /\ \A k \in 1..Len(appendices) :
                       ContainsKeywords(appendices[k], query_keywords) =>
                           AcceptedAt(md.matched_appendices.items, appendices[k],
                                      (appendices[k].cos * AppendixBoost(appendices[k], query_keywords, tf))
                                          \div 1000,
                                      appendix_threshold)

(***************************************************************************)
(* Claims about cross-document re-ranking                                  *)
(***************************************************************************)
\* the pivot of the re-ranking: the document doc_map holds for best_doc_id
HasPivot == best_doc_id # NoId /\ MapIndex(doc_map, best_doc_id) # 0

Pivot == doc_map[MapIndex(doc_map, best_doc_id)].doc

\* the score the claim gives entry i of enhanced_results after re-ranking
RerankedScore(i) ==
    LET e == enhanced_results[i]
        sim == DocSimilarity(Pivot.page_content, e.doc.page_content)
    IN  IF e.doc.ref # Pivot.ref /\ sim > 700
        THEN (e.score * (1000 + (sim - 700) \div 2)) \div 1000
        ELSE e.score

\* C24: the re-ranking step leaves the pivot's score unchanged, multiplies
\* the score of every other candidate whose similarity to the pivot exceeds
\* 0.7 by a factor in (1, 1.15], and leaves the other scores unchanged
C24_RerankBoostsSimilarOnly ==
    [][(spc = "rerank" /\ HasPivot) =>
           /\ Len(enhanced_results') = Len(enhanced_results)
           /\ \A i \in 1..Len(enhanced_results) :
                  /\ enhanced_results'[i].doc = enhanced_results[i].doc
                  /\ enhanced_results'[i].score = RerankedScore(i)
                  /\ 1000 * enhanced_results'[i].score <= 1150 * enhanced_results[i].score]_vars

(***************************************************************************)
(* Claims about the scope of the rate limit                                *)
(***************************************************************************)
\* C25: all RateLimiter instances share one rolling list of request
\* timestamps: after any sequence of wait calls every instance reads the same
\* list, so a request recorded through one counts against the budget of all
C25_OneSharedRequestList ==
    \A i, j \in Instances : ReadRequestTimes(i) = ReadRequestTimes(j)

(***************************************************************************)
(* Claims about the best-matching document                                 *)
(***************************************************************************)
\* the returned entry is the best-matching document: it carries best_doc_id
\* and the highest subsection score
IsBestDocument(r) ==
    /\ r.doc.ref - 100 \in 1..Len(results)
    /\ DocId(results[r.doc.ref - 100].doc.metadata, r.doc.ref - 100) = best_doc_id
    /\ r.doc.metadata.subsection_score = best_subsection_score

\* C26: whenever at least one candidate document has an accepted
\* sub-structure, the list _search_articles_and_appendices returns includes
\* the best-matching document
C26_BestDocumentReturned ==
    (Searched /\ enhanced_results # <<>>) =>
        \E k \in 1..Len(found) : IsBestDocument(found[k])

(***************************************************************************)
(* Claims about the workflow graph                                         *)
(***************************************************************************)
\* the node run after the k-th node execution, or the one the graph runs next
NodeAfter(k) == IF k < Len(executed) THEN executed[k + 1].node ELSE gpc

FirstGeneration(k) ==
    /\ executed[k].node = "generator"
    /\ \A j \in 1..(k - 1) : executed[j].node # "generator"

\* C27: when the generator's first answer has hallucinations or does not
\* answer the question, check_generation_quality routes back to the
\* retriever for one retry
C27_PoorFirstAnswerRetried ==
    \A k \in 1..Len(executed) :
        (FirstGeneration(k) /\ executed[k].poor) => NodeAfter(k) = "retriever"

RetrieverRuns == Cardinality({k \in 1..Len(executed) : executed[k].node = "retriever"})

\* C30: every execution of the workflow graph terminates: whatever the
\* analyzer, the grader and the generator answer, the run reaches END, and
\* the retriever node runs at most max_retrieval_attempts times
C30_GraphTerminates ==
    /\ <>(gpc = "END")
    /\ [](RetrieverRuns <= graph_config.max_retrieval_attempts)

\* a run that retrieved, generated an answer of poor quality and ended
C30_Witness ==
    /\ gpc = "END"
    /\ RetrieverRuns = 1
    /\ \E k \in 1..Len(executed) : executed[k].poor

(***************************************************************************)
(* Claims about repeating the completeness step                            *)
(***************************************************************************)
\* C28: _ensure_complete_articles_and_appendices is idempotent: a second
\* call on the same document leaves matched_articles and matched_appendices
\* as the first call left them (same entries, same scores, same order)
C28_EnsureIdempotent ==
    [][epc = "ensured" =>
           /\ edoc'.matched_articles = edoc.matched_articles
           /\ edoc'.matched_appendices = edoc.matched_appendices]_vars

(***************************************************************************)
(* Claims about doc_map and enhanced_results                               *)
(***************************************************************************)
\* the candidate (a Document object) is in the list with that score
HoldsWithScore(entries, doc, score) ==
    \E k \in 1..Len(entries) : entries[k].doc.ref = doc.ref /\ entries[k].score = score

\* C29: after the cross-document re-ranking step doc_map and
\* enhanced_results agree: every scored candidate is in both, with the same
\* score in both
C29_MapAndResultsAgree ==
    spc = "select" =>
        /\ \A k \in 1..Len(enhanced_results) :
               HoldsWithScore(doc_map, enhanced_results[k].doc, enhanced_results[k].score)
        /\ \A k \in 1..Len(doc_map) :
               HoldsWithScore(enhanced_results, doc_map[k].doc, doc_map[k].score)

====
